---- MODULE Spec2Model ----
(***************************************************************************)
(* Model of the process execution helper of obox_mcp (src/obox_mcp/utils.py):*)
(* one call of run_command_output, the run_command it awaits, the two       *)
(* read_stream collector tasks, the event loop's pipe transport and the     *)
(* child process at the other end of the three pipes.                       *)
(*                                                                          *)
(* Texts are sequences of tokens.  A token is an ordinary character "a",    *)
(* the newline NL (the only whitespace the child writes), the token LONG    *)
(* (a chunk that StreamReader.readline / bytes.decode cannot deliver: more  *)
(* than the 64 KiB readline limit without a newline, or a byte that is not  *)
(* UTF-8), or a literal piece of a message built by the helper.             *)
(*                                                                          *)
(* The callers of the helper are modelled as components of their own, each  *)
(* with its own specification: the project root locator find_project_root   *)
(* with the uv wrappers of src/obox_mcp/python.py that call it (RootSpec),  *)
(* the fd command line the locator builds, applied by fd to one entry of    *)
(* the directory tree (FdSpec), the Node.js tools of                        *)
(* src/obox_mcp/nodejs.py with their resolve_root (NodeSpec), the           *)
(* read_file tool of src/obox_mcp/bat.py (BatSpec), and two run_command     *)
(* invocations running at the same time on one event loop (ConcSpec).       *)
(* Further components: load_mcp_modules of src/main.py with the tools the   *)
(* mounted servers register (LoadSpec), install_app with the package        *)
(* manager step (InstSpec), the justfile project_runner writes (JustSpec),  *)
(* run_fd_async and run_rg_async (ExecSpec), and init_project of            *)
(* src/project_templates/obox_fastapi.py (ApiSpec).                         *)
(* A component awaits run_command / run_command_output as one step whose    *)
(* outcome is one of the outcomes the helper has in Spec: a returned triple *)
(* or string, or the exception of a failed spawn.                           *)
(***************************************************************************)
EXTENDS Integers, Sequences, FiniteSets, TLC

\* ---------------------------------------------------------------- bounds
MaxOut == 3        \* tokens a scripted child is given and writes, all pipes together
MaxIn == 2         \* tokens of input_data
PipeCap == 1       \* tokens a pipe (kernel buffer + reader buffer) holds
HighWater == 0     \* write-buffer size above which drain() blocks
MaxExit == 1       \* a child exits with a code in 0..MaxExit
MaxDepth == 2      \* directory levels between the filesystem root and the cwd
MaxLines == 2      \* lines of output a searched-for command prints
MaxName == 3       \* characters of a file name in the searched tree
MaxTreeDepth == 6  \* levels of the searched tree below the cwd
MaxRoots == 2      \* directories that hold a package.json
MaxRange == 5      \* characters of a line_range argument
MaxCallOut == 2    \* tokens the child of a concurrent invocation writes
MaxProjects == 2   \* projects detect_projects finds
MaxBytes == 2      \* tokens fd or rg writes to one of its output pipes

\* ---------------------------------------------------------------- tokens
NL == "\n"
LONG == "L"
SP == " "
Whitespace == {NL, SP}
ChildTokens == {"a", NL, LONG}

RECURSIVE TextsUpTo(_, _)
TextsUpTo(S, n) ==
    IF n = 0 THEN {<<>>}
    ELSE LET shorter == TextsUpTo(S, n - 1)
         IN  shorter \cup {Append(t, c) : t \in shorter, c \in S}

Min(a, b) == IF a < b THEN a ELSE b

\* str.strip(): drop leading and trailing whitespace
RECURSIVE LStrip(_)
LStrip(s) == IF s # <<>> /\ Head(s) \in Whitespace THEN LStrip(Tail(s)) ELSE s

RECURSIVE RStrip(_)
RStrip(s) ==
    IF s # <<>> /\ s[Len(s)] \in Whitespace
    THEN RStrip(SubSeq(s, 1, Len(s) - 1))
    ELSE s

Strip(s) == RStrip(LStrip(s))

\* "".join(lines)
RECURSIVE Join(_)
Join(lines) == IF lines = <<>> THEN <<>> ELSE Head(lines) \o Join(Tail(lines))

\* " ".join(words)
RECURSIVE JoinSp(_)
JoinSp(words) ==
    IF words = <<>> THEN <<>>
    ELSE IF Len(words) = 1 THEN <<Head(words)>>
    ELSE <<Head(words), SP>> \o JoinSp(Tail(words))

\* cmd_str = command if isinstance(command, str) else " ".join(command)
CmdStr(cmd) == IF cmd.shell THEN cmd.words ELSE JoinSp(cmd.words)

Marker == <<NL, "(Still running...)">>

Streams == {"stdout", "stderr"}

\* ---------------------------------------------------------------- inputs
Commands ==
    { [shell |-> TRUE,  words |-> <<"ls -l">>],
      [shell |-> FALSE, words |-> <<"fd", "-H">>] }

NoInput == [given |-> FALSE, text |-> <<>>]
EchoInputs == [given : {TRUE}, text : TextsUpTo(ChildTokens, MaxIn)]
ScriptInputs == {NoInput} \cup [given : {TRUE}, text : TextsUpTo({"a"}, MaxIn)]

NoTimeout == [given |-> FALSE, secs |-> 0]
Timeouts == {NoTimeout} \cup [given : {TRUE}, secs : 0..1]

\* what a scripted child writes to (stdout, stderr) before it exits
Scripts ==
    { p \in TextsUpTo(ChildTokens, MaxOut) \X TextsUpTo(ChildTokens, MaxOut) :
        Len(p[1]) + Len(p[2]) <= MaxOut }

DefaultCodes == [given |-> FALSE, codes |-> {}]
SuccessCodeArgs == {DefaultCodes} \cup [given : {TRUE}, codes : {{0, 1}, {-1}}]

ErrorPrefixes == {"Error executing", "Failed to run"}

\* str(e) of the exceptions the helper can meet
SpawnErrors == {<<"[Errno 2] No such file or directory">>}
PipeErrors == {<<"Connection lost">>}


\* ---------------------------------------------------------------- state
VARIABLES
    command,        \* run_command_output's command argument
    input_data,     \* its input_data argument
    timeout,        \* its timeout argument
    success_codes,  \* its success_codes argument (read when formatting)
    error_prefix,   \* its error_prefix argument (read when formatting)
    pc,             \* where the call is
    child,          \* the child process
    pipe,           \* per output stream: tokens written and not yet read
    wclosed,        \* per output stream: the write end is closed
    inPipe,         \* tokens in the child's stdin pipe
    wbuf,           \* tokens process.stdin.write() left in the write buffer
    stdinClosing,   \* process.stdin.close() was called
    task,           \* per stream: state of the read_stream task
    partial,        \* per stream: the line readline() is assembling
    data,           \* stdout_data / stderr_data: the lists of decoded lines
    elapsed,        \* timeout seconds have passed since the call began
    wrote,          \* per stream: everything the child has written (history)
    exc,            \* text of the exception run_command let through
    rc,             \* the triple run_command returned
    result,         \* the string run_command_output returned
    spawns          \* calls of create_subprocess_shell/_exec made so far

\* the project root locator and the uv wrapper that calls it
VARIABLES
    tool,           \* the uv wrapper that was called
    root_dir,       \* its root_dir argument, then the directory it resolved
    cwd,            \* os.getcwd()
    fs,             \* the paths that exist in the file system
    fdOnPath,       \* shutil.which("fd") finds an executable
    current,        \* find_project_root's loop variable
    rpc,            \* where the wrapper call is
    fdRun,          \* what run_command(["fd", ...]) returned
    found,          \* what find_project_root returned, and from which phase
    uvRun           \* the uv command that was run: its cwd and its output

\* the fd search of find_project_root, seen from fd
VARIABLES
    filename,       \* find_project_root's filename argument, as characters
    entry,          \* an entry of the tree below the cwd
    fdArgv,         \* the argument vector given to run_command
    selected        \* whether fd prints the entry

\* a Node.js tool call and its resolve_root
VARIABLES
    nodeTool,       \* the tool that was called
    nodeRoot,       \* its root_dir argument
    pkgRoots,       \* the list of directories that hold a package.json
    npc,            \* where the tool call is
    resolved,       \* the pair resolve_root returned
    nodeExc,        \* the exception that is propagating
    nodeResult      \* the string the tool returned

\* a read_file call
VARIABLES
    line_range,     \* its line_range argument, as characters
    final_range,    \* the range given to bat
    bpc,            \* where the call is
    batResult,      \* the string it returned
    batLog          \* the helpers the call has awaited, in order

\* concurrent invocations of run_command
VARIABLES
    calls           \* per invocation: its locals, its child and its pipes

\* one load_mcp_modules call of src/main.py
VARIABLES
    directories,    \* its directories argument
    ldir,           \* index of the directory the outer loop is at
    lfile,          \* index of the file the inner loop is at (0: not listed yet)
    mounted,        \* the sub-servers mounted on the main server, by prefix
    lpc             \* where the call is

\* one install_app call of src/obox_mcp/utils.py
VARIABLES
    system,         \* platform.system()
    onPath,         \* the commands shutil.which finds
    app_name,       \* install_app's app_name argument
    scoop_bucket,   \* its scoop_bucket argument
    command_name,   \* its command_name argument
    ipc,            \* where the call is
    ran,            \* the commands given to run_command so far, with exit codes
    installed       \* the pair install_app returned

\* one project_runner call of src/obox_mcp/just.py
VARIABLES
    projects,       \* the list detect_projects returned
    justOk,         \* install_app("just") succeeded
    jidx,           \* index of the project the loop is at
    dev_tasks,      \* the task names collected so far
    justfile,       \* the recipes appended to justfile_content, in order
    jpc             \* where the call is

\* one run_fd_async / run_rg_async call (src/obox_mcp/fd.py, ripgrep.py)
VARIABLES
    prog,           \* the program the helper runs: "fd" or "rg"
    xargs,          \* the helper's args argument
    proc,           \* the process after communicate(): returncode, stdout, stderr
    xpc,            \* where the call is
    xout            \* the string the helper returned

\* one init_project call of src/project_templates/obox_fastapi.py
VARIABLES
    apiPath,        \* its path argument: "absolute", "home" (~/...) or "relative"
    uvOk,           \* install_app("uv") succeeded
    mainWas,        \* main.py before the call: "absent" or "user"
    mainPy,         \* main.py now: "absent", "user", "uv" or "template"
    steps,          \* the uv commands run so far, with what they returned
    apc,            \* where the call is
    apiOut          \* the string init_project returned

runVars == <<command, input_data, timeout, success_codes, error_prefix, pc, child,
             pipe, wclosed, inPipe, wbuf, stdinClosing, task, partial, data,
             elapsed, wrote, exc, rc, result, spawns>>
rootVars == <<tool, root_dir, cwd, fs, fdOnPath, current, rpc, fdRun, found, uvRun>>
fdVars == <<filename, entry, fdArgv, selected>>
nodeVars == <<nodeTool, nodeRoot, pkgRoots, npc, resolved, nodeExc, nodeResult>>

batVars == <<line_range, final_range, bpc, batResult, batLog>>

loadVars == <<directories, ldir, lfile, mounted, lpc>>
instVars == <<system, onPath, app_name, scoop_bucket, command_name, ipc, ran,
              installed>>
justVars == <<projects, justOk, jidx, dev_tasks, justfile, jpc>>
execVars == <<prog, xargs, proc, xpc, xout>>
apiVars == <<apiPath, uvOk, mainWas, mainPy, steps, apc, apiOut>>

\* the process helper with its direct callers, and the other components
moreVars == <<loadVars, instVars, justVars, execVars, apiVars>>
coreVars == <<runVars, rootVars, fdVars, nodeVars, batVars, calls>>

vars == <<coreVars, moreVars>>

outsideRun == <<rootVars, fdVars, nodeVars, batVars, calls, moreVars>>
outsideRoot == <<runVars, fdVars, nodeVars, batVars, calls, moreVars>>
outsideFd == <<runVars, rootVars, nodeVars, batVars, calls, moreVars>>
outsideNode == <<runVars, rootVars, fdVars, batVars, calls, moreVars>>
outsideBat == <<runVars, rootVars, fdVars, nodeVars, calls, moreVars>>
outsideCalls == <<runVars, rootVars, fdVars, nodeVars, batVars, moreVars>>

outsideLoad == <<coreVars, instVars, justVars, execVars, apiVars>>
outsideInst == <<coreVars, loadVars, justVars, execVars, apiVars>>
outsideJust == <<coreVars, loadVars, instVars, execVars, apiVars>>
outsideExec == <<coreVars, loadVars, instVars, justVars, apiVars>>
outsideApi == <<coreVars, loadVars, instVars, justVars, execVars>>

callArgs == <<command, input_data, timeout>>
args == <<callArgs, spawns, outsideRun>>
fmtArgs == <<success_codes, error_prefix>>
stdinVars == <<inPipe, wbuf, stdinClosing>>
readerVars == <<task, partial, data>>
outPipes == <<pipe, wclosed, wrote>>

NoChild == [mode |-> "none", state |-> "none", code |-> 0,
            out |-> <<>>, err |-> <<>>, hold |-> <<>>,
            heir |-> "none", early |-> FALSE, intime |-> FALSE]
NoResult == [kind |-> "none", none |-> FALSE, code |-> 0,
             out |-> <<>>, err |-> <<>>]
Each(v) == [s \in Streams |-> v]

\* `if timeout:`
TimeoutTruthy(t) == t.given /\ t.secs # 0

\* `if success_codes is None: success_codes = [0]`
EffectiveCodes(sc) == IF sc.given THEN sc.codes ELSE {0}

\* a path is the sequence of its components below the filesystem root
Root == <<>>
NoDir == [given |-> FALSE, dir |-> Root]
NoRun == [kind |-> "none", code |-> 0, out |-> <<>>]
NotFound == [phase |-> "none", dir |-> Root]
NoUv == [ran |-> FALSE, cwd |-> NoDir, out |-> <<>>]

\* no wrapper call is in progress
RootIdle ==
    /\ tool = "none"
    /\ root_dir = NoDir
    /\ cwd = Root
    /\ fs = {}
    /\ fdOnPath = FALSE
    /\ current = Root
    /\ rpc = "idle"
    /\ fdRun = NoRun
    /\ found = NotFound
    /\ uvRun = NoUv

NoEntry == [name |-> <<>>, depth |-> 0, inHidden |-> FALSE, ignored |-> FALSE,
            kind |-> "none"]

\* no fd search is being looked at
FdIdle ==
    /\ filename = <<>>
    /\ entry = NoEntry
    /\ fdArgv = <<>>
    /\ selected = "idle"

\* an optional string: None, or the text
None == [given |-> FALSE, text |-> <<>>]
Some(t) == [given |-> TRUE, text |-> t]
NoPair == [root |-> None, err |-> None, set |-> FALSE]

\* no Node.js tool call is in progress
NodeIdle ==
    /\ nodeTool = "none"
    /\ nodeRoot = None
    /\ pkgRoots = <<>>
    /\ npc = "idle"
    /\ resolved = NoPair
    /\ nodeExc = <<>>
    /\ nodeResult = <<>>

\* no read_file call is in progress
BatIdle ==
    /\ line_range = None
    /\ final_range = <<>>
    /\ bpc = "idle"
    /\ batResult = <<>>
    /\ batLog = <<>>

CallIds == {1, 2}

\* an invocation before its spawn: fresh locals, no child
FreshCall ==
    [pc |-> "call",
     child |-> [state |-> "none", code |-> 0, out |-> <<>>, err |-> <<>>,
                script |-> <<<<>>, <<>>>>],
     pipe |-> Each(<<>>), closed |-> FALSE,
     task |-> Each("none"), partial |-> Each(<<>>), data |-> Each(<<>>),
     rc |-> NoResult]

\* no concurrent invocations are running
CallsIdle == calls = [i \in CallIds |-> [FreshCall EXCEPT !.pc = "idle"]]

\* no load_mcp_modules call is in progress
LoadIdle ==
    /\ directories = <<>>
    /\ ldir = 0
    /\ lfile = 0
    /\ mounted = {}
    /\ lpc = "idle"

NoPairYet == [set |-> FALSE, ok |-> FALSE, msg |-> <<>>]

\* no install_app call is in progress
InstIdle ==
    /\ system = "Linux"
    /\ onPath = {}
    /\ app_name = "none"
    /\ scoop_bucket = None
    /\ command_name = None
    /\ ipc = "idle"
    /\ ran = <<>>
    /\ installed = NoPairYet

\* no project_runner call is in progress
JustIdle ==
    /\ projects = <<>>
    /\ justOk = FALSE
    /\ jidx = 0
    /\ dev_tasks = <<>>
    /\ justfile = <<>>
    /\ jpc = "idle"

NoProc == [exited |-> FALSE, code |-> 0, stdout |-> <<>>, stderr |-> <<>>]

\* no run_fd_async / run_rg_async call is in progress
ExecIdle ==
    /\ prog = "none"
    /\ xargs = <<>>
    /\ proc = NoProc
    /\ xpc = "idle"
    /\ xout = <<>>

\* no init_project call is in progress
ApiIdle ==
    /\ apiPath = "absolute"
    /\ uvOk = FALSE
    /\ mainWas = "absent"
    /\ mainPy = "absent"
    /\ steps = <<>>
    /\ apc = "idle"
    /\ apiOut = <<>>

MoreIdle == LoadIdle /\ InstIdle /\ JustIdle /\ ExecIdle /\ ApiIdle

RunStart ==
    /\ command \in Commands
    /\ input_data \in EchoInputs \cup ScriptInputs
    /\ timeout \in Timeouts
    /\ success_codes = DefaultCodes
    /\ error_prefix = "Error executing"
    /\ pc = "call"
    /\ child = NoChild
    /\ pipe = Each(<<>>)
    /\ wclosed = Each(FALSE)
    /\ inPipe = <<>>
    /\ wbuf = <<>>
    /\ stdinClosing = FALSE
    /\ task = Each("none")
    /\ partial = Each(<<>>)
    /\ data = Each(<<>>)
    /\ elapsed = FALSE
    /\ wrote = Each(<<>>)
    /\ exc = <<>>
    /\ rc = NoResult
    /\ result = <<>>
    /\ spawns = 0

\* no call of the helper is in progress
RunIdle ==
    /\ RunStart
    /\ command = [shell |-> FALSE, words |-> <<"fd", "-H">>]
    /\ input_data = NoInput
    /\ timeout = NoTimeout

Init == RunStart /\ RootIdle /\ FdIdle /\ NodeIdle /\ BatIdle /\ CallsIdle /\ MoreIdle

\* ------------------------------------------------------- the child process
\* the programs a spawned command may turn out to be
Children ==
    { [mode |-> "script", state |-> "running", code |-> 0,
       out |-> p[1], err |-> p[2], hold |-> <<>>,
       heir |-> "none", early |-> FALSE, intime |-> FALSE] : p \in Scripts }

\* what a child that leaves a descendant behind writes before it exits
ForkScripts == { <<<<>>, <<>>>>, <<<<"a">>, <<>>>> }

\* a child that starts a descendant and exits (sh -c "sleep 8 & exit 0"): the
\* descendant inherits the write ends of stdout and stderr and writes nothing
ForkingChildren ==
    { [mode |-> "script", state |-> "running", code |-> 0,
       out |-> p[1], err |-> p[2], hold |-> <<>>,
       heir |-> "alive", early |-> FALSE, intime |-> FALSE] : p \in ForkScripts }

EchoChild == [mode |-> "echo", state |-> "running", code |-> 0,
              out |-> <<>>, err |-> <<>>, hold |-> <<>>,
              heir |-> "none", early |-> FALSE, intime |-> FALSE]

Todo(s) == IF s = "stdout" THEN child.out ELSE child.err

\* a scripted child writes the next token of its script; the write blocks
\* while the pipe is full
ChildWrite(s) ==
    /\ child.mode = "script" /\ child.state = "running"
    /\ Todo(s) # <<>>
    /\ Len(pipe[s]) < PipeCap
    /\ pipe' = [pipe EXCEPT ![s] = Append(@, Head(Todo(s)))]
    /\ wrote' = [wrote EXCEPT ![s] = Append(@, Head(Todo(s)))]
    /\ child' = IF s = "stdout" THEN [child EXCEPT !.out = Tail(@)]
                                ELSE [child EXCEPT !.err = Tail(@)]
    /\ UNCHANGED <<args, fmtArgs, pc, wclosed, stdinVars, readerVars, elapsed,
                   exc, rc, result>>

\* a scripted child exits once its script is written; its pipe ends close,
\* unless a descendant holds them too.  When it exits before run_command has
\* called process.wait(), the loop may have set returncode by then or not.
ChildExit ==
    /\ child.mode = "script" /\ child.state = "running"
    /\ child.out = <<>> /\ child.err = <<>>
    /\ \E c \in 0..MaxExit,
          e \in (IF child.heir = "alive" /\ pc \in {"try", "drain", "close"}
                 THEN BOOLEAN ELSE {FALSE}) :
            child' = [child EXCEPT !.state = "exited", !.code = c, !.early = e,
                                   !.intime = ~elapsed]
    /\ wclosed' = Each(child.heir # "alive")
    /\ UNCHANGED <<args, fmtArgs, pc, pipe, wrote, stdinVars, readerVars, elapsed,
                   exc, rc, result>>

\* the pass-through child (cat): read a token from stdin ...
EchoRead ==
    /\ child.mode = "echo" /\ child.state = "running"
    /\ child.hold = <<>> /\ inPipe # <<>>
    /\ child' = [child EXCEPT !.hold = <<Head(inPipe)>>]
    /\ inPipe' = Tail(inPipe)
    /\ UNCHANGED <<args, fmtArgs, pc, outPipes, wbuf, stdinClosing, readerVars,
                   elapsed, exc, rc, result>>

\* ... and copy it to stdout
EchoWrite ==
    /\ child.mode = "echo" /\ child.state = "running"
    /\ child.hold # <<>>
    /\ Len(pipe["stdout"]) < PipeCap
    /\ pipe' = [pipe EXCEPT !["stdout"] = @ \o child.hold]
    /\ wrote' = [wrote EXCEPT !["stdout"] = @ \o child.hold]
    /\ child' = [child EXCEPT !.hold = <<>>]
    /\ UNCHANGED <<args, fmtArgs, pc, wclosed, stdinVars, readerVars, elapsed,
                   exc, rc, result>>

\* end of input reaches the child when stdin was closed and all is flushed
StdinAtEof == stdinClosing /\ wbuf = <<>> /\ inPipe = <<>>

EchoExit ==
    /\ child.mode = "echo" /\ child.state = "running"
    /\ child.hold = <<>> /\ StdinAtEof
    /\ child' = [child EXCEPT !.state = "exited", !.code = 0, !.intime = ~elapsed]
    /\ wclosed' = Each(TRUE)
    /\ UNCHANGED <<args, fmtArgs, pc, pipe, wrote, stdinVars, readerVars, elapsed,
                   exc, rc, result>>

ChildNext ==
    \/ \E s \in Streams : ChildWrite(s)
    \/ ChildExit
    \/ EchoRead
    \/ EchoWrite
    \/ EchoExit

\* the descendant that inherited the output pipes exits: the write ends close
HeirExit ==
    /\ child.heir = "alive" /\ child.state = "exited"
    /\ child' = [child EXCEPT !.heir = "gone"]
    /\ wclosed' = Each(TRUE)
    /\ UNCHANGED <<args, fmtArgs, pc, pipe, wrote, stdinVars, readerVars, elapsed,
                   exc, rc, result>>


\* ------------------------------------------------------ the event loop
\* the stdin transport moves buffered input into the pipe as room appears
Flush ==
    /\ child.state = "running"
    /\ wbuf # <<>>
    /\ Len(inPipe) < PipeCap
    /\ inPipe' = Append(inPipe, Head(wbuf))
    /\ wbuf' = Tail(wbuf)
    /\ UNCHANGED <<args, fmtArgs, pc, child, outPipes, stdinClosing, readerVars,
                   elapsed, exc, rc, result>>

\* wall-clock time: `timeout` seconds have passed; time passes while
\* run_command is suspended in an await (drain, wait)
Tick ==
    /\ TimeoutTruthy(timeout) /\ ~elapsed
    /\ pc \in {"drain", "wait"}
    /\ elapsed' = TRUE
    /\ UNCHANGED <<args, fmtArgs, pc, child, outPipes, stdinVars, readerVars,
                   exc, rc, result>>

\* ------------------------------------------------------ read_stream
\* one turn of `line = await stream.readline()` on data that arrived:
\* a chunk readline or decode cannot deliver raises and ends the task (the
\* except clause only prints); a newline completes a line, which is appended
ReadToken(s) ==
    /\ task[s] = "running"
    /\ pipe[s] # <<>>
    /\ pipe' = [pipe EXCEPT ![s] = Tail(@)]
    /\ LET t == Head(pipe[s]) IN
         IF t = LONG
         THEN /\ task' = [task EXCEPT ![s] = "failed"]
              /\ partial' = [partial EXCEPT ![s] = <<>>]
              /\ UNCHANGED data
         ELSE IF t = NL
         THEN /\ data' = [data EXCEPT ![s] = Append(@, Append(partial[s], t))]
              /\ partial' = [partial EXCEPT ![s] = <<>>]
              /\ UNCHANGED task
         ELSE /\ partial' = [partial EXCEPT ![s] = Append(@, t)]
              /\ UNCHANGED <<task, data>>
    /\ UNCHANGED <<args, fmtArgs, pc, child, wclosed, wrote, stdinVars, elapsed,
                   exc, rc, result>>

\* end of stream: readline returns the unterminated rest (appended when it
\* is not empty), then b"", and the loop breaks
ReadEof(s) ==
    /\ task[s] = "running"
    /\ pipe[s] = <<>> /\ wclosed[s]
    /\ data' = [data EXCEPT ![s] = IF partial[s] = <<>> THEN @
                                   ELSE Append(@, partial[s])]
    /\ partial' = [partial EXCEPT ![s] = <<>>]
    /\ task' = [task EXCEPT ![s] = "eof"]
    /\ UNCHANGED <<args, fmtArgs, pc, child, outPipes, stdinVars, elapsed,
                   exc, rc, result>>

CollectorNext == \E s \in Streams : ReadToken(s) \/ ReadEof(s)

\* ------------------------------------------------------ run_command
\* create_subprocess_shell / create_subprocess_exec succeeds: the child runs
\* (a scripted child that ignores its stdin, or the pass-through child) and
\* both read_stream tasks are started
SpawnOk ==
    /\ pc = "call"
    /\ \/ /\ input_data \in ScriptInputs
          /\ child' \in Children \cup ForkingChildren
          /\ Len(input_data.text) + Len(child'.out) + Len(child'.err) <= MaxOut
       \/ input_data \in EchoInputs /\ child' = EchoChild
    /\ task' = Each("running")
    /\ spawns' = spawns + 1
    /\ pc' = "try"
    /\ UNCHANGED <<callArgs, outsideRun, fmtArgs, outPipes, stdinVars, partial, data, elapsed,
                   exc, rc, result>>

\* variant: a failed spawn is tried once more
SpawnFails_Retries ==
    /\ pc = "call"
    /\ spawns < 2
    /\ exc' \in SpawnErrors
    /\ spawns' = spawns + 1
    /\ pc' = IF spawns = 0 THEN "call" ELSE "raised"
    /\ UNCHANGED <<callArgs, outsideRun, fmtArgs, child, outPipes, stdinVars, readerVars, elapsed,
                   rc, result>>

\* the spawn raises (no such executable, bad cwd): it is outside the try
\* block, so the exception leaves run_command
SpawnFails ==
    /\ pc = "call"
    /\ exc' \in SpawnErrors
    /\ spawns' = spawns + 1
    /\ pc' = "raised"
    /\ UNCHANGED <<callArgs, outsideRun, fmtArgs, child, outPipes, stdinVars, readerVars, elapsed,
                   rc, result>>

\* process.stdin.write(input_data.encode()): what the pipe takes goes to the
\* pipe, the rest stays in the write buffer; without input nothing is written
WriteInput ==
    /\ pc = "try"
    /\ IF input_data.given
       THEN /\ pc' = "drain"
            /\ IF child.state = "running"
               THEN LET n == Min(Len(input_data.text), PipeCap - Len(inPipe)) IN
                    /\ inPipe' = inPipe \o SubSeq(input_data.text, 1, n)
                    /\ wbuf' = SubSeq(input_data.text, n + 1, Len(input_data.text))
               ELSE UNCHANGED <<inPipe, wbuf>>
       ELSE /\ pc' = "wait"
            /\ UNCHANGED <<inPipe, wbuf>>
    /\ UNCHANGED <<args, fmtArgs, child, outPipes, stdinClosing, readerVars,
                   elapsed, exc, rc, result>>

\* await process.stdin.drain() returns once the write buffer is at or below
\* the high-water mark
DrainOk ==
    /\ pc = "drain"
    /\ Len(wbuf) <= HighWater
    /\ pc' = "close"
    /\ UNCHANGED <<args, fmtArgs, child, outPipes, stdinVars, readerVars, elapsed,
                   exc, rc, result>>

\* except Exception: cancel both tasks, return (-1, stdout so far, text)
Cancelled(tk) == [s \in Streams |-> IF tk[s] = "running" THEN "cancelled" ELSE tk[s]]

ExceptionResult(e) ==
    [kind |-> "exc", none |-> FALSE, code |-> -1,
     out |-> Join(data["stdout"]),
     err |-> e \o <<NL>> \o Join(data["stderr"])]

\* await process.stdin.drain() raises because the child has closed its end
\* of the pipe; the except clause turns it into the -1 triple
DrainRaises ==
    /\ pc = "drain"
    /\ child.state = "exited"
    /\ \E e \in PipeErrors : rc' = ExceptionResult(e)
    /\ task' = Cancelled(task)
    /\ pc' = "returned"
    /\ UNCHANGED <<args, fmtArgs, child, outPipes, stdinVars, partial, data,
                   elapsed, exc, result>>

\* process.stdin.close()
CloseStdin ==
    /\ pc = "close"
    /\ stdinClosing' = TRUE
    /\ pc' = "wait"
    /\ UNCHANGED <<args, fmtArgs, child, outPipes, inPipe, wbuf, readerVars,
                   elapsed, exc, rc, result>>

\* process.wait() is over: it returns at once when returncode was set before
\* the call; a waiter is woken when the child has exited and its pipes are
\* disconnected, that is when every holder of their write ends has closed them
WaitDone ==
    /\ child.state = "exited"
    /\ child.early \/ \A s \in Streams : wclosed[s]

\* process.wait() completes (directly, or as the done task of asyncio.wait)
WaitExit ==
    /\ pc = "wait"
    /\ WaitDone
    /\ pc' = "gather"
    /\ UNCHANGED <<args, fmtArgs, child, outPipes, stdinVars, readerVars, elapsed,
                   exc, rc, result>>

TimeoutResult ==
    [kind |-> "timeout", none |-> TRUE, code |-> 0,
     out |-> Strip(Join(data["stdout"])) \o Marker,
     err |-> Strip(Join(data["stderr"]))]

\* variant: the timeout branch kills the child before returning
TimeoutReturn_Kills ==
    /\ pc = "wait"
    /\ TimeoutTruthy(timeout) /\ elapsed
    /\ child.state = "running"
    /\ rc' = TimeoutResult
    /\ child' = [child EXCEPT !.state = "killed"]
    /\ wclosed' = Each(TRUE)
    /\ pc' = "returned"
    /\ UNCHANGED <<args, fmtArgs, pipe, wrote, stdinVars, readerVars, elapsed,
                   exc, result>>

\* asyncio.wait(..., timeout=timeout) returns with nothing done
TimeoutReturn ==
    /\ pc = "wait"
    /\ TimeoutTruthy(timeout) /\ elapsed
    /\ ~WaitDone
    /\ rc' = TimeoutResult
    /\ pc' = "returned"
    /\ UNCHANGED <<args, fmtArgs, child, outPipes, stdinVars, readerVars, elapsed,
                   exc, result>>

\* variant: the result is built without joining the tasks
TasksFinished_NoJoin == TRUE

\* asyncio.gather(stdout_task, stderr_task) completes when both tasks ended
TasksFinished == \A s \in Streams : task[s] \in {"eof", "failed"}

\* variant: the returned stdout is not stripped
ExitResult_Unstripped ==
    [kind |-> "exit", none |-> FALSE, code |-> child.code,
     out |-> Join(data["stdout"]),
     err |-> Strip(Join(data["stderr"]))]

ExitResult ==
    [kind |-> "exit", none |-> FALSE, code |-> child.code,
     out |-> Strip(Join(data["stdout"])),
     err |-> Strip(Join(data["stderr"]))]

GatherReturn ==
    /\ pc = "gather"
    /\ TasksFinished
    /\ rc' = ExitResult
    /\ pc' = "returned"
    /\ UNCHANGED <<args, fmtArgs, child, outPipes, stdinVars, readerVars, elapsed,
                   exc, result>>

RunCommandNext ==
    \/ SpawnOk
    \/ SpawnFails
    \/ WriteInput
    \/ DrainOk
    \/ DrainRaises
    \/ CloseStdin
    \/ WaitExit
    \/ TimeoutReturn
    \/ GatherReturn

\* ------------------------------------------------------ run_command_output
ErrorText(prefix, cmd, msg) == <<prefix, SP>> \o CmdStr(cmd) \o <<": ">> \o msg

\* variant: msg = out or err
ErrOrOut_StdoutFirst(err, out) == IF out # <<>> THEN out ELSE err

\* msg = err or out
ErrOrOut(err, out) == IF err # <<>> THEN err ELSE out

\* variant: without the `code is None` test an absent code is not a success code
FormatResult_NoneIsFailure(r, sc, prefix, cmd) ==
    IF ~r.none /\ r.code \in EffectiveCodes(sc) THEN r.out
    ELSE ErrorText(prefix, cmd, ErrOrOut(r.err, r.out))

\* the else branch: code is None, code in success_codes, or the error text
FormatResult(r, sc, prefix, cmd) ==
    IF r.none THEN r.out
    ELSE IF r.code \in EffectiveCodes(sc) THEN r.out
    ELSE ErrorText(prefix, cmd, ErrOrOut(r.err, r.out))

FormatReturned ==
    /\ pc = "returned"
    /\ \E sc \in SuccessCodeArgs, p \in ErrorPrefixes :
         /\ success_codes' = sc
         /\ error_prefix' = p
         /\ result' = FormatResult(rc, sc, p, command)
    /\ pc' = "done"
    /\ UNCHANGED <<args, child, outPipes, stdinVars, readerVars, elapsed, exc, rc>>

\* variant: the except branch re-raises instead of returning a string
FormatException_Reraises ==
    /\ pc = "raised"
    /\ pc' = "escaped"
    /\ UNCHANGED <<args, fmtArgs, child, outPipes, stdinVars, readerVars, elapsed,
                   exc, rc, result>>

\* the except branch around the call of run_command
FormatException ==
    /\ pc = "raised"
    /\ \E sc \in SuccessCodeArgs, p \in ErrorPrefixes :
         /\ success_codes' = sc
         /\ error_prefix' = p
         /\ result' = ErrorText(p, command, exc)
    /\ pc' = "done"
    /\ UNCHANGED <<args, child, outPipes, stdinVars, readerVars, elapsed, exc, rc>>

RunCommandOutputNext == FormatReturned \/ FormatException

Next ==
    \/ RunCommandNext
    \/ RunCommandOutputNext
    \/ CollectorNext
    \/ ChildNext
    \/ HeirExit
    \/ Flush
    \/ Tick

Spec == Init /\ [][Next]_vars

TypeOK ==
    /\ pc \in {"call", "try", "drain", "close", "wait", "gather", "returned",
               "raised", "done", "escaped"}
    /\ child.state \in {"none", "running", "exited", "killed"}
    /\ \A s \in Streams : Len(pipe[s]) <= PipeCap
    /\ Len(inPipe) <= PipeCap


\* ============================================ the project root locator
Names == {"x", "y"}
Dirs == TextsUpTo(Names, MaxDepth)

\* the marker the uv wrappers look for
PyProject == "pyproject.toml"

\* os.path.join(directory, name)
PathJoin(dir, name) == Append(dir, name)

\* variant: the walk goes up two levels at a time
Dirname_TwoUp(p) == IF Len(p) <= 2 THEN Root ELSE SubSeq(p, 1, Len(p) - 2)

\* os.path.dirname(path): the root is its own parent
Dirname(p) == IF p = Root THEN Root ELSE SubSeq(p, 1, Len(p) - 1)

\* os.path.abspath(path) of a path relative to the working directory
Abspath(rel) == cwd \o rel

\* os.path.exists(path)
Exists(p) == p \in fs

IsPrefix(a, b) == Len(a) <= Len(b) /\ SubSeq(b, 1, Len(a)) = a

\* where a marker file may lie: in the cwd, its ancestors and its children
MarkerPaths(d) ==
    {PathJoin(a, PyProject) : a \in {b \in Dirs : IsPrefix(b, d)}}
      \cup {PathJoin(Append(d, n), PyProject) : n \in Names}

\* what fd prints: paths of matching files relative to the cwd, one per line
FdLines == {PathJoin(d, PyProject) : d \in TextsUpTo(Names, 1)}
FdOutputs == TextsUpTo(FdLines, MaxLines)
FdCodes == {-1} \cup 0..MaxExit

UvTools == {"configure_python_environment", "install_python_package",
            "get_list_python_packages_installed", "uv_sync"}

\* the arguments each wrapper gives to run_uv_async
UvArgs(t) ==
    CASE t = "configure_python_environment" -> <<"venv", "--python", "3.12">>
      [] t = "install_python_package" -> <<"add", "requests">>
      [] t = "get_list_python_packages_installed" -> <<"pip", "list">>
      [] t = "uv_sync" -> <<"sync">>

\* the strings run_command_output(["uv", ...]) may return
UvOutputs(t) ==
    { <<"ok">>,
      ErrorText("Error executing uv",
                [shell |-> FALSE, words |-> <<"uv">> \o UvArgs(t)], <<"failed">>) }

RootInit ==
    /\ RunIdle /\ FdIdle /\ NodeIdle /\ BatIdle /\ CallsIdle /\ MoreIdle
    /\ tool \in UvTools
    /\ root_dir \in {NoDir, [given |-> TRUE, dir |-> <<"w">>]}
    /\ cwd \in Dirs
    /\ fs \in SUBSET MarkerPaths(cwd)
    /\ fdOnPath \in BOOLEAN
    /\ current = Root
    /\ rpc = "entry"
    /\ fdRun = NoRun
    /\ found = NotFound
    /\ uvRun = NoUv

rootEnv == <<tool, cwd, fs, fdOnPath>>

\* `if root_dir is None:` is false: the given directory is used
RootGiven ==
    /\ rpc = "entry"
    /\ root_dir.given
    /\ rpc' = "uv"
    /\ UNCHANGED <<outsideRoot, rootEnv, root_dir, current, fdRun, found, uvRun>>

\* find_project_root is called: current = os.getcwd()
StartWalk ==
    /\ rpc = "entry"
    /\ ~root_dir.given
    /\ current' = cwd
    /\ rpc' = "up"
    /\ UNCHANGED <<outsideRoot, rootEnv, root_dir, fdRun, found, uvRun>>

\* the marker exists in current: return current
UpFound ==
    /\ rpc = "up"
    /\ Exists(PathJoin(current, PyProject))
    /\ found' = [phase |-> "up", dir |-> current]
    /\ root_dir' = [given |-> TRUE, dir |-> current]
    /\ rpc' = "uv"
    /\ UNCHANGED <<outsideRoot, rootEnv, current, fdRun, uvRun>>

\* no marker here and current has a parent: current = parent
UpClimb ==
    /\ rpc = "up"
    /\ ~Exists(PathJoin(current, PyProject))
    /\ Dirname(current) # current
    /\ current' = Dirname(current)
    /\ UNCHANGED <<outsideRoot, rootEnv, root_dir, rpc, fdRun, found, uvRun>>

\* no marker here and parent == current: break
UpAtRoot ==
    /\ rpc = "up"
    /\ ~Exists(PathJoin(current, PyProject))
    /\ Dirname(current) = current
    /\ rpc' = "which"
    /\ UNCHANGED <<outsideRoot, rootEnv, root_dir, current, fdRun, found, uvRun>>

\* is_command_exists("fd") is false: return None
FdMissing ==
    /\ rpc = "which"
    /\ ~fdOnPath
    /\ found' = [phase |-> "absent", dir |-> Root]
    /\ rpc' = "uv"
    /\ UNCHANGED <<outsideRoot, rootEnv, root_dir, current, fdRun, uvRun>>

\* is_command_exists("fd") is true
FdPresent ==
    /\ rpc = "which"
    /\ fdOnPath
    /\ rpc' = "fd"
    /\ UNCHANGED <<outsideRoot, rootEnv, root_dir, current, fdRun, found, uvRun>>

\* run_command(["fd", ...]) raises at the spawn (the file found on PATH
\* cannot be executed): nothing catches it here or in the wrapper
FdSpawnFails ==
    /\ rpc = "fd"
    /\ fdRun' = [kind |-> "raised", code |-> 0, out |-> <<>>]
    /\ rpc' = "raised"
    /\ UNCHANGED <<outsideRoot, rootEnv, root_dir, current, found, uvRun>>

\* run_command(["fd", ...]) returns (code, out, _): the directory of the
\* first line when code == 0 and out is not empty, None otherwise
FdReturns ==
    /\ rpc = "fd"
    /\ \E code \in FdCodes, out \in FdOutputs :
         /\ fdRun' = [kind |-> "returned", code |-> code, out |-> out]
         /\ IF code = 0 /\ out # <<>>
            THEN LET d == Dirname(Abspath(Head(out))) IN
                 /\ found' = [phase |-> "down", dir |-> d]
                 /\ root_dir' = [given |-> TRUE, dir |-> d]
            ELSE /\ found' = [phase |-> "absent", dir |-> Root]
                 /\ UNCHANGED root_dir
    /\ rpc' = "uv"
    /\ UNCHANGED <<outsideRoot, rootEnv, current, uvRun>>

\* variant: without a project root the wrapper gives up
RunUv_NeedsRoot ==
    /\ rpc = "uv"
    /\ IF root_dir.given
       THEN \E o \in UvOutputs(tool) :
              uvRun' = [ran |-> TRUE, cwd |-> root_dir, out |-> o]
       ELSE uvRun' = [ran |-> FALSE, cwd |-> NoDir, out |-> <<"Error: no project root">>]
    /\ rpc' = "done"
    /\ UNCHANGED <<outsideRoot, rootEnv, root_dir, current, fdRun, found>>

\* return await run_uv_async(args, cwd=root_dir)
RunUv ==
    /\ rpc = "uv"
    /\ \E o \in UvOutputs(tool) :
         uvRun' = [ran |-> TRUE, cwd |-> root_dir, out |-> o]
    /\ rpc' = "done"
    /\ UNCHANGED <<outsideRoot, rootEnv, root_dir, current, fdRun, found>>

FindProjectRootNext ==
    \/ StartWalk
    \/ UpFound
    \/ UpClimb
    \/ UpAtRoot
    \/ FdMissing
    \/ FdPresent
    \/ FdSpawnFails
    \/ FdReturns

RootNext == RootGiven \/ FindProjectRootNext \/ RunUv

RootSpec == RootInit /\ [][RootNext]_vars

\* ===================================================== the fd search
\* a word of a command line is the sequence of its characters (an option
\* name after its dashes is one token)
FdCommand_NoHidden(name) ==
    << <<"f", "d">>, <<"-", "I">>, <<"-", "t">>, <<"f">>,
       <<"^">> \o name \o <<"$">>, <<"-", "-", "max-depth">>, <<"5">> >>

\* ["fd", "-H", "-I", "-t", "f", f"^{filename}$", "--max-depth", "5"]
FdCommand(name) ==
    << <<"f", "d">>, <<"-", "H">>, <<"-", "I">>, <<"-", "t">>, <<"f">>,
       <<"^">> \o name \o <<"$">>, <<"-", "-", "max-depth">>, <<"5">> >>

NameChars == {"p", "P", ".", "t"}
Markers == { <<"p", ".", "t">>, <<"P", "t">> }

Entries ==
    [name : TextsUpTo(NameChars, MaxName) \ {<<>>}, depth : 1..MaxTreeDepth,
     inHidden : BOOLEAN, ignored : BOOLEAN, kind : {"file", "dir"}]

\* fd, as its manual describes it ---------------------------------------
DigitVal(c) ==
    CASE c = "0" -> 0 [] c = "1" -> 1 [] c = "2" -> 2 [] c = "3" -> 3
      [] c = "4" -> 4 [] c = "5" -> 5 [] c = "6" -> 6 [] c = "7" -> 7
      [] c = "8" -> 8 [] c = "9" -> 9

RECURSIVE ParseNat(_)
ParseNat(ds) ==
    IF ds = <<>> THEN 0
    ELSE 10 * ParseNat(SubSeq(ds, 1, Len(ds) - 1)) + DigitVal(ds[Len(ds)])

Lower(c) == IF c = "P" THEN "p" ELSE c

HasOption(argv, opt) == \E i \in 2..Len(argv) : argv[i] = opt
OptionValue(argv, opt) ==
    argv[(CHOOSE i \in 2..(Len(argv) - 1) : argv[i] = opt) + 1]
ValueOptions == { <<"-", "t">>, <<"-", "-", "max-depth">> }

\* the first word that is neither an option nor the value of one
FdPattern(argv) ==
    argv[CHOOSE i \in 2..Len(argv) :
           /\ Head(argv[i]) # "-" /\ argv[i - 1] \notin ValueOptions
           /\ \A j \in 2..(i - 1) :
                Head(argv[j]) = "-" \/ argv[j - 1] \in ValueOptions]

\* smart case: case-insensitive unless the pattern has an uppercase letter
FdIgnoresCase(argv) == \A i \in 1..Len(FdPattern(argv)) :
                          Lower(FdPattern(argv)[i]) = FdPattern(argv)[i]

CharMatches(p, c, ci) == p = "." \/ (IF ci THEN Lower(p) = Lower(c) ELSE p = c)

\* regular expression search with ^, $ and . as the only metacharacters
RegexSearch(pat, name, ci) ==
    LET atStart == pat # <<>> /\ Head(pat) = "^"
        p1 == IF atStart THEN Tail(pat) ELSE pat
        atEnd == p1 # <<>> /\ p1[Len(p1)] = "$"
        body == IF atEnd THEN SubSeq(p1, 1, Len(p1) - 1) ELSE p1
    IN  \E i \in 1..(Len(name) - Len(body) + 1) :
          /\ atStart => i = 1
          /\ atEnd => i + Len(body) - 1 = Len(name)
          /\ \A k \in 1..Len(body) : CharMatches(body[k], name[i + k - 1], ci)

IsHidden(e) == e.inHidden \/ Head(e.name) = "."

\* whether fd, run with argv in the cwd, prints entry e
FdSelects(argv, e) ==
    /\ IsHidden(e) => HasOption(argv, <<"-", "H">>)
    /\ e.ignored => HasOption(argv, <<"-", "I">>)
    /\ HasOption(argv, <<"-", "t">>) =>
         (OptionValue(argv, <<"-", "t">>) = <<"f">> <=> e.kind = "file")
    /\ HasOption(argv, <<"-", "-", "max-depth">>) =>
         e.depth <= ParseNat(OptionValue(argv, <<"-", "-", "max-depth">>))
    /\ RegexSearch(FdPattern(argv), e.name, FdIgnoresCase(argv))

FdInit ==
    /\ RunIdle /\ RootIdle /\ NodeIdle /\ BatIdle /\ CallsIdle /\ MoreIdle
    /\ filename \in Markers
    /\ entry \in Entries
    /\ fdArgv = <<>>
    /\ selected = "call"

\* find_project_root builds the command line
BuildFdCommand ==
    /\ selected = "call"
    /\ fdArgv' = FdCommand(filename)
    /\ selected' = "running"
    /\ UNCHANGED <<outsideFd, filename, entry>>

\* fd visits the entry
FdVisit ==
    /\ selected = "running"
    /\ selected' = IF FdSelects(fdArgv, entry) THEN "printed" ELSE "skipped"
    /\ UNCHANGED <<outsideFd, filename, entry, fdArgv>>

FdNext == BuildFdCommand \/ FdVisit

FdSpec == FdInit /\ [][FdNext]_vars

\* ================================================== the Node.js tools
\* the functions src/obox_mcp/utils.py defines
UtilsFunctions ==
    {"is_command_exists", "run_command", "run_command_output",
     "find_project_root", "install_package_manager", "add_scoop_bucket",
     "install_app", "search_package"}

\* str(e) of the AttributeError of utils.<name>
AttributeErrorText(name) ==
    <<"module 'obox_mcp.utils' has no attribute '", name, "'">>

NodeTools == {"get_nodejs_info", "pnpm_add", "pnpm_list", "pnpm_run"}

\* root_dir arguments: None, the empty string, a directory
NodeRootArgs == {None, Some(<<>>), Some(<<"/w">>)}
PackageDirs == {"/p", "/q", "/r"}
RootLists ==
    {l \in TextsUpTo(PackageDirs, MaxRoots) :
       \A i, j \in 1..Len(l) : i # j => l[i] # l[j]}

\* `if root_dir:`
Truthy(opt) == opt.given /\ opt.text # <<>>

\* what the tool returns once root_dir is resolved: the string of
\* run_command_async, or get_nodejs_info's JSON or caught-error string
NodeOutputs(t) ==
    IF t = "get_nodejs_info"
    THEN { <<"{...}">>, <<"Error gathering environment info: ", "failed">> }
    ELSE { <<"ok">>, <<"Error installing pnpm: ", "failed">>,
           ErrorText("Error executing",
                     [shell |-> FALSE, words |-> <<"pnpm">>], <<"failed">>) }

NodeInit ==
    /\ RunIdle /\ RootIdle /\ FdIdle /\ BatIdle /\ CallsIdle /\ MoreIdle
    /\ nodeTool \in NodeTools
    /\ nodeRoot \in NodeRootArgs
    /\ pkgRoots \in RootLists
    /\ npc = "entry"
    /\ resolved = NoPair
    /\ nodeExc = <<>>
    /\ nodeResult = <<>>

nodeArgs == <<nodeTool, nodeRoot, pkgRoots>>

\* "\n".join(f"- {r}" for r in roots)
RECURSIVE RootsList(_)
RootsList(roots) ==
    IF roots = <<>> THEN <<>>
    ELSE IF Len(roots) = 1 THEN <<"- ", Head(roots)>>
    ELSE <<"- ", Head(roots), NL>> \o RootsList(Tail(roots))

\* resolve_root after the lookup: the pair it builds from the list of roots
FromRoots(roots) ==
    IF roots = <<>>
    THEN [root |-> None, set |-> TRUE,
          err |-> Some(<<"Error: Could not find any directory containing 'package.json'.">>)]
    ELSE IF Len(roots) > 1
    THEN [root |-> None, set |-> TRUE,
          err |-> Some(<<"Found multiple project roots containing 'package.json'. ",
                         "Please specify the 'root_dir' parameter to choose one:", NL>>
                       \o RootsList(roots))]
    ELSE [root |-> Some(<<roots[1]>>), err |-> None, set |-> TRUE]

\* resolve_root: `if root_dir: return root_dir, None`; otherwise it calls
\* utils.find_project_roots, a name utils does not define
ResolveRoot ==
    /\ npc = "entry"
    /\ IF Truthy(nodeRoot)
       THEN /\ resolved' = [root |-> nodeRoot, err |-> None, set |-> TRUE]
            /\ npc' = "resolved"
            /\ UNCHANGED nodeExc
       ELSE IF "find_project_roots" \in UtilsFunctions
       THEN /\ resolved' = FromRoots(pkgRoots)
            /\ npc' = "resolved"
            /\ UNCHANGED nodeExc
       ELSE /\ nodeExc' = AttributeErrorText("find_project_roots")
            /\ npc' = "raising"
            /\ UNCHANGED resolved
    /\ UNCHANGED <<outsideNode, nodeArgs, nodeResult>>

\* get_nodejs_info: `except Exception as e: return f"Error gathering ..."`
InfoCatches ==
    /\ npc = "raising"
    /\ nodeTool = "get_nodejs_info"
    /\ nodeResult' = <<"Error gathering environment info: ">> \o nodeExc
    /\ npc' = "done"
    /\ UNCHANGED <<outsideNode, nodeArgs, resolved, nodeExc>>

\* pnpm_add, pnpm_list, pnpm_run have no handler: the exception leaves the tool
PnpmPropagates ==
    /\ npc = "raising"
    /\ nodeTool \in {"pnpm_add", "pnpm_list", "pnpm_run"}
    /\ npc' = "unhandled"
    /\ UNCHANGED <<outsideNode, nodeArgs, resolved, nodeExc, nodeResult>>

\* `if err: return err`, else the commands are run in the resolved root
ToolRuns ==
    /\ npc = "resolved"
    /\ IF resolved.err.given
       THEN nodeResult' = resolved.err.text
       ELSE nodeResult' \in NodeOutputs(nodeTool)
    /\ npc' = "done"
    /\ UNCHANGED <<outsideNode, nodeArgs, resolved, nodeExc>>

NodeNext == ResolveRoot \/ InfoCatches \/ PnpmPropagates \/ ToolRuns

NodeSpec == NodeInit /\ [][NodeNext]_vars

\* ======================================================== read_file
RangeChars == {"0", "1", "5", ":", "-", "x"}
LineRanges == {None} \cup {Some(t) : t \in TextsUpTo(RangeChars, MaxRange)}

DigitChars == {"0", "1", "2", "3", "4", "5", "6", "7", "8", "9"}
DigitChar(d) ==
    CASE d = 0 -> "0" [] d = 1 -> "1" [] d = 2 -> "2" [] d = 3 -> "3"
      [] d = 4 -> "4" [] d = 5 -> "5" [] d = 6 -> "6" [] d = 7 -> "7"
      [] d = 8 -> "8" [] d = 9 -> "9"

\* str(n) as an f-string writes it
RECURSIVE IntToStr(_)
IntToStr(n) ==
    IF n < 0 THEN <<"-">> \o IntToStr(0 - n)
    ELSE IF n < 10 THEN <<DigitChar(n)>>
    ELSE IntToStr(n \div 10) \o <<DigitChar(n % 10)>>

\* int(s) succeeds: an optional sign and at least one digit
Unsigned(t) == IF t # <<>> /\ Head(t) = "-" THEN Tail(t) ELSE t
IsInt(t) ==
    /\ Unsigned(t) # <<>>
    /\ \A i \in 1..Len(Unsigned(t)) : Unsigned(t)[i] \in DigitChars

\* int(s)
PyInt(t) ==
    IF t # <<>> /\ Head(t) = "-" THEN 0 - ParseNat(Tail(t)) ELSE ParseNat(t)

\* s.split(":")
RECURSIVE Split(_)
Split(t) ==
    IF \A i \in 1..Len(t) : t[i] # ":" THEN <<t>>
    ELSE LET k == CHOOSE i \in 1..Len(t) :
                    t[i] = ":" /\ \A j \in 1..(i - 1) : t[j] # ":"
         IN  <<SubSeq(t, 1, k - 1)>> \o Split(SubSeq(t, k + 1, Len(t)))

max_lines == 500

Rejected(msg) == [ok |-> FALSE, range |-> <<>>, error |-> <<"Error:", msg>>]
Accepted(r) == [ok |-> TRUE, range |-> r, error |-> <<>>]

\* variant: the size of the range is not checked
ParseRange_NoLimit(parts) ==
    LET start_str == parts[1]
        end_str == parts[2]
    IN  IF start_str # <<>> /\ ~IsInt(start_str)
        THEN Rejected(" Invalid start line number.")
        ELSE IF end_str # <<>> /\ ~IsInt(end_str)
        THEN Rejected(" Invalid end line number.")
        ELSE LET start == IF start_str # <<>> THEN PyInt(start_str) ELSE 1
                 end == IF end_str # <<>> THEN PyInt(end_str)
                        ELSE start + max_lines - 1
             IN  IF end < start
                 THEN Rejected(" End line must be >= start line.")
                 ELSE Accepted(IntToStr(start) \o <<":">> \o IntToStr(end))

\* the two parts of a line_range with one colon
ParseRange(parts) ==
    LET start_str == parts[1]
        end_str == parts[2]
    IN  IF start_str # <<>> /\ ~IsInt(start_str)
        THEN Rejected(" Invalid start line number.")
        ELSE IF end_str # <<>> /\ ~IsInt(end_str)
        THEN Rejected(" Invalid end line number.")
        ELSE LET start == IF start_str # <<>> THEN PyInt(start_str) ELSE 1
                 end == IF end_str # <<>> THEN PyInt(end_str)
                        ELSE start + max_lines - 1
             IN  IF end < start
                 THEN Rejected(" End line must be >= start line.")
                 ELSE IF (end - start + 1) > max_lines
                 THEN Rejected(" Line range exceeds maximum of 500 lines.")
                 ELSE Accepted(IntToStr(start) \o <<":">> \o IntToStr(end))

\* _read_file up to the installation of bat: the range, or the error string
CheckedRange(lr) ==
    IF ~Truthy(lr) THEN Accepted(<<"1", ":", "5", "0", "0">>)
    ELSE IF \E i \in 1..Len(lr.text) : lr.text[i] = ":"
    THEN IF Len(Split(lr.text)) > 2
         THEN Rejected(" Invalid line range format. Use 'N', 'N:M', 'N:', or ':M'.")
         ELSE ParseRange(Split(lr.text))
    ELSE IF IsInt(lr.text) THEN Accepted(lr.text)
    ELSE Rejected(" Invalid line number.")

\* what run_command_output(["bat", ...]) may return
BatOutputs ==
    { <<"   1 a">>,
      ErrorText("Error reading file with bat",
                [shell |-> FALSE, words |-> <<"bat", "--line-range">>], <<"failed">>) }

BatInit ==
    /\ RunIdle /\ RootIdle /\ FdIdle /\ NodeIdle /\ CallsIdle /\ MoreIdle
    /\ line_range \in LineRanges
    /\ final_range = <<>>
    /\ bpc = "entry"
    /\ batResult = <<>>
    /\ batLog = <<>>

\* variant: bat is installed before the line_range is looked at
RangeRejected_AfterInstall ==
    /\ bpc = "entry"
    /\ ~CheckedRange(line_range).ok
    /\ batResult' = CheckedRange(line_range).error
    /\ batLog' = Append(batLog, "install_app ok")
    /\ bpc' = "rejected"
    /\ UNCHANGED <<outsideBat, line_range, final_range>>

\* the line_range is not one _read_file takes: an error string is returned
RangeRejected ==
    /\ bpc = "entry"
    /\ ~CheckedRange(line_range).ok
    /\ batResult' = CheckedRange(line_range).error
    /\ bpc' = "rejected"
    /\ UNCHANGED <<outsideBat, line_range, final_range, batLog>>

\* the line_range is taken: final_range is set
RangeAccepted ==
    /\ bpc = "entry"
    /\ CheckedRange(line_range).ok
    /\ final_range' = CheckedRange(line_range).range
    /\ bpc' = "install"
    /\ UNCHANGED <<outsideBat, line_range, batResult, batLog>>

\* utils.install_app("bat") fails: return f"Error: {msg}"
InstallFails ==
    /\ bpc = "install"
    /\ batResult' = <<"Error:", " ", "failed">>
    /\ batLog' = Append(batLog, "install_app failed")
    /\ bpc' = "install_failed"
    /\ UNCHANGED <<outsideBat, line_range, final_range>>

\* utils.install_app("bat") reports success
InstallSucceeds ==
    /\ bpc = "install"
    /\ batLog' = Append(batLog, "install_app ok")
    /\ bpc' = "run"
    /\ UNCHANGED <<outsideBat, line_range, final_range, batResult>>

\* bat is there: run_command_output(["bat", "--line-range", final_range, ...])
RunBat ==
    /\ bpc = "run"
    /\ batResult' \in BatOutputs
    /\ batLog' = Append(batLog, "bat")
    /\ bpc' = "returned"
    /\ UNCHANGED <<outsideBat, line_range, final_range>>

BatNext ==
    \/ RangeRejected \/ RangeAccepted
    \/ InstallFails \/ InstallSucceeds \/ RunBat

BatSpec == BatInit /\ [][BatNext]_vars

\* ========================================== concurrent invocations
\* each child writes its own character, so that text can be told apart
OwnToken(i) == IF i = 1 THEN "a" ELSE "b"

CallScripts(i) ==
    { p \in TextsUpTo({OwnToken(i), NL}, MaxCallOut)
            \X TextsUpTo({OwnToken(i), NL}, MaxCallOut) :
        Len(p[1]) + Len(p[2]) <= MaxCallOut }

\* variant: the line lists are module-level, one pair for all invocations
BufferOf_Shared(i) == 1

\* stdout_data = [], stderr_data = []: lists local to the invocation
BufferOf(i) == i

ConcInit ==
    /\ RunIdle /\ RootIdle /\ FdIdle /\ NodeIdle /\ BatIdle /\ MoreIdle
    /\ calls = [i \in CallIds |-> FreshCall]

\* create_subprocess_exec succeeds; both read_stream tasks are created
CallSpawn(i) ==
    /\ calls[i].pc = "call"
    /\ \E p \in CallScripts(i) :
         calls' = [calls EXCEPT
                     ![i].child = [state |-> "running", code |-> 0,
                                   out |-> p[1], err |-> p[2], script |-> p],
                     ![i].task = Each("running"),
                     ![i].pc = "wait"]
    /\ UNCHANGED outsideCalls

CallTodo(i, s) == IF s = "stdout" THEN calls[i].child.out ELSE calls[i].child.err

\* the child of invocation i writes the next token of its script
CallChildWrite(i, s) ==
    /\ calls[i].child.state = "running"
    /\ CallTodo(i, s) # <<>>
    /\ Len(calls[i].pipe[s]) < PipeCap
    /\ calls' = [calls EXCEPT
                   ![i].pipe[s] = Append(@, Head(CallTodo(i, s))),
                   ![i].child = IF s = "stdout" THEN [@ EXCEPT !.out = Tail(@)]
                                                ELSE [@ EXCEPT !.err = Tail(@)]]
    /\ UNCHANGED outsideCalls

\* the child exits once its script is written, each child with a code of
\* its own; its pipe ends close
CallChildExit(i) ==
    /\ calls[i].child.state = "running"
    /\ calls[i].child.out = <<>> /\ calls[i].child.err = <<>>
    /\ calls' = [calls EXCEPT ![i].child.state = "exited",
                               ![i].child.code = i,
                               ![i].closed = TRUE]
    /\ UNCHANGED outsideCalls

\* read_stream of invocation i: a newline completes a line, which is
\* appended to the invocation's list
CallRead(i, s) ==
    /\ calls[i].task[s] = "running"
    /\ calls[i].pipe[s] # <<>>
    /\ LET t == Head(calls[i].pipe[s]) IN
         IF t = NL
         THEN calls' = [calls EXCEPT
                          ![i].pipe[s] = Tail(@),
                          ![i].partial[s] = <<>>,
                          ![BufferOf(i)].data[s] =
                              Append(@, Append(calls[i].partial[s], t))]
         ELSE calls' = [calls EXCEPT
                          ![i].pipe[s] = Tail(@),
                          ![i].partial[s] = Append(@, t)]
    /\ UNCHANGED outsideCalls

\* end of stream: the unterminated rest is appended, the task ends
CallReadEof(i, s) ==
    /\ calls[i].task[s] = "running"
    /\ calls[i].pipe[s] = <<>> /\ calls[i].closed
    /\ calls' = [calls EXCEPT
                   ![i].task[s] = "eof",
                   ![i].partial[s] = <<>>,
                   ![BufferOf(i)].data[s] =
                       IF calls[i].partial[s] = <<>> THEN @
                       ELSE Append(@, calls[i].partial[s])]
    /\ UNCHANGED outsideCalls

\* await process.wait() completes
CallWaitExit(i) ==
    /\ calls[i].pc = "wait"
    /\ calls[i].child.state = "exited"
    /\ calls' = [calls EXCEPT ![i].pc = "gather"]
    /\ UNCHANGED outsideCalls

\* gather completes; return (process.returncode, stdout, stderr)
CallReturn(i) ==
    /\ calls[i].pc = "gather"
    /\ \A s \in Streams : calls[i].task[s] = "eof"
    /\ calls' = [calls EXCEPT
                   ![i].rc = [kind |-> "exit", none |-> FALSE,
                              code |-> calls[i].child.code,
                              out |-> Strip(Join(calls[BufferOf(i)].data["stdout"])),
                              err |-> Strip(Join(calls[BufferOf(i)].data["stderr"]))],
                   ![i].pc = "returned"]
    /\ UNCHANGED outsideCalls

ConcNext ==
    \E i \in CallIds :
      \/ CallSpawn(i)
      \/ \E s \in Streams : CallChildWrite(i, s)
      \/ CallChildExit(i)
      \/ \E s \in Streams : CallRead(i, s)
      \/ \E s \in Streams : CallReadEof(i, s)
      \/ CallWaitExit(i)
      \/ CallReturn(i)

ConcSpec == ConcInit /\ [][ConcNext]_vars

\* ---------------------------------------------------- load_mcp_modules
\* an entry of a server directory: filename[:-3], filename.endswith(".py"),
\* filename.startswith("_")
PyFile(stem) == [stem |-> stem, py |-> TRUE, underscore |-> FALSE]
CacheDir == [stem |-> "__pycache__", py |-> FALSE, underscore |-> TRUE]

\* sorted(os.listdir(mcp_dir)) of the directories that exist beside main.py
Listing ==
    [d \in {"obox_mcp", "project_templates"} |->
        IF d = "obox_mcp"
        THEN <<CacheDir, PyFile("bat"), PyFile("dotnet"), PyFile("fd"),
               PyFile("fzf"), PyFile("installer"), PyFile("just"),
               PyFile("nodejs"), PyFile("python"), PyFile("ripgrep"),
               PyFile("utils")>>
        ELSE <<PyFile("obox_fastapi"), PyFile("react")>>]

DirectoryLists ==
    { <<"obox_mcp", "project_templates">>, <<"project_templates", "obox_mcp">>,
      <<"obox_mcp", "plugins">>, <<"project_templates">> }

\* the first of the attributes mcp, server, app that holds a FastMCP instance
SubApp(stem) == IF stem = "utils" THEN "none" ELSE "mcp"

\* the functions a module registers with @mcp.tool, by registered name
Tools(stem) ==
    CASE stem = "bat" -> {"read_file"}
      [] stem = "dotnet" ->
            {"new_sln", "list_sln_projects", "add_project_to_sln",
             "remove_project_from_sln", "new_project", "list_project_templates",
             "add_project_reference", "remove_project_reference",
             "list_project_references", "add_package", "remove_package",
             "list_packages", "build", "run_project", "test", "clean",
             "publish", "get_dotnet_info"}
      [] stem = "fd" -> {"find", "execute"}
      [] stem = "fzf" -> {"filter_items", "filter_file_content", "search_files"}
      [] stem = "installer" ->
            {"install_package_manager", "install_app", "add_bucket",
             "search_package"}
      [] stem = "just" -> {"project_runner"}
      [] stem = "nodejs" ->
            {"install_nodejs_tools", "list_node_versions",
             "list_remote_node_versions", "install_node_version",
             "use_node_version", "get_nodejs_info", "pnpm_add", "pnpm_list",
             "pnpm_run"}
      [] stem = "python" ->
            {"list_available_python_environments",
             "configure_python_environment", "get_env_info",
             "install_python_package", "get_list_python_packages_installed",
             "uv_sync"}
      [] stem = "ripgrep" -> {"search", "list_files", "list_file_types"}
      [] stem \in {"obox_fastapi", "react"} -> {"init_project"}
      [] OTHER -> {}

\* the docstring of a registered function: each one in the sources opens with
\* a newline and an indent, then has text
Docstring_OneMissing(stem, name) ==
    IF stem = "react" THEN None ELSE Some(<<NL, SP, "a", NL, SP>>)

Docstring(stem, name) == Some(<<NL, SP, "a", NL, SP>>)

\* no decorator passes description=, so the tool's description is the
\* docstring, cleaned of its surrounding blank lines and indentation
Description(stem, name) ==
    LET doc == Docstring(stem, name)
    IN  IF doc.given THEN Some(Strip(doc.text)) ELSE None

\* mcp.get_tools(): the tools of the mounted sub-servers, under their prefix
GetTools ==
    { [prefix |-> m, name |-> t, description |-> Description(m, t)] :
        <<m, t>> \in UNION { {m} \X Tools(m) : m \in mounted } }

LoadInit ==
    /\ directories \in DirectoryLists
    /\ ldir = 1
    /\ lfile = 0
    /\ mounted = {}
    /\ lpc = "loop"
    /\ RunIdle /\ RootIdle /\ FdIdle /\ NodeIdle /\ BatIdle /\ CallsIdle
    /\ InstIdle /\ JustIdle /\ ExecIdle /\ ApiIdle

CurrentFile == Listing[directories[ldir]][lfile]

\* the loops move on: next file, else next directory, else the call returns
MoveOn ==
    IF lfile # 0 /\ lfile < Len(Listing[directories[ldir]])
    THEN /\ lfile' = lfile + 1
         /\ UNCHANGED <<ldir, lpc>>
    ELSE /\ lfile' = 0
         /\ IF ldir < Len(directories)
            THEN ldir' = ldir + 1 /\ UNCHANGED lpc
            ELSE lpc' = "done" /\ UNCHANGED ldir

\* `if not os.path.exists(mcp_dir): ... continue`
DirMissing ==
    /\ lpc = "loop" /\ lfile = 0
    /\ directories[ldir] \notin DOMAIN Listing
    /\ MoveOn
    /\ UNCHANGED <<directories, mounted, outsideLoad>>

DirListed ==
    /\ lpc = "loop" /\ lfile = 0
    /\ directories[ldir] \in DOMAIN Listing
    /\ lfile' = 1
    /\ UNCHANGED <<directories, ldir, mounted, lpc, outsideLoad>>

\* `if filename.endswith(".py") and not filename.startswith("_")` is false
SkipFile ==
    /\ lpc = "loop" /\ lfile # 0
    /\ ~(CurrentFile.py /\ ~CurrentFile.underscore)
    /\ MoveOn
    /\ UNCHANGED <<directories, mounted, outsideLoad>>

\* importlib.import_module raises (a dependency of the module is missing)
ImportRaises ==
    /\ lpc = "loop" /\ lfile # 0
    /\ CurrentFile.py /\ ~CurrentFile.underscore
    /\ MoveOn
    /\ UNCHANGED <<directories, mounted, outsideLoad>>

MountSubApp ==
    /\ lpc = "loop" /\ lfile # 0
    /\ CurrentFile.py /\ ~CurrentFile.underscore
    /\ SubApp(CurrentFile.stem) # "none"
    /\ mounted' = mounted \cup {CurrentFile.stem}
    /\ MoveOn
    /\ UNCHANGED <<directories, outsideLoad>>

NoSubApp ==
    /\ lpc = "loop" /\ lfile # 0
    /\ CurrentFile.py /\ ~CurrentFile.underscore
    /\ SubApp(CurrentFile.stem) = "none"
    /\ MoveOn
    /\ UNCHANGED <<directories, mounted, outsideLoad>>

LoadNext ==
    \/ DirMissing \/ DirListed \/ SkipFile
    \/ ImportRaises \/ MountSubApp \/ NoSubApp

LoadSpec == LoadInit /\ [][LoadNext]_vars

\* ---------------------------------------------------------- install_app
Systems == {"Darwin", "Windows", "Linux"}

\* the package manager install_package_manager knows for a system
Manager(sys) ==
    CASE sys = "Darwin" -> "brew"
      [] sys = "Windows" -> "scoop"
      [] OTHER -> "none"

\* (app_name, scoop_bucket, command_name) of the calls
InstallArgs ==
    { <<"bat", None, None>>, <<"ripgrep", None, Some(<<"rg">>)>>,
      <<"fzf", Some(<<"extras">>), None>> }

\* `cmd_to_check = command_name or app_name`
CmdToCheck == IF command_name.given THEN command_name.text[1] ELSE app_name

\* run_command(cmd) returned this exit code
Ran(what, code) == [cmd |-> what, code |-> code]

InstallCodes == 0..MaxExit

Pair(ok, msg) == [set |-> TRUE, ok |-> ok, msg |-> msg]

InstInit ==
    /\ system \in Systems
    /\ onPath \in SUBSET {"bat", "rg", "fzf", "brew", "scoop"}
    /\ \E a \in InstallArgs :
        /\ app_name = a[1]
        /\ scoop_bucket = a[2]
        /\ command_name = a[3]
    /\ ipc = "entry"
    /\ ran = <<>>
    /\ installed = NoPairYet
    /\ RunIdle /\ RootIdle /\ FdIdle /\ NodeIdle /\ BatIdle /\ CallsIdle
    /\ LoadIdle /\ JustIdle /\ ExecIdle /\ ApiIdle

instArgs == <<system, onPath, app_name, scoop_bucket, command_name>>

\* `if await is_command_exists(cmd_to_check): return True, ...`
AlreadyInstalled ==
    /\ ipc = "entry"
    /\ CmdToCheck \in onPath
    /\ installed' = Pair(TRUE, <<app_name, " is already installed and available on PATH.">>)
    /\ ipc' = "returned"
    /\ UNCHANGED <<instArgs, ran, outsideInst>>

NotInstalled ==
    /\ ipc = "entry"
    /\ CmdToCheck \notin onPath
    /\ ipc' = "manager"
    /\ UNCHANGED <<instArgs, ran, installed, outsideInst>>

\* install_package_manager() finds the manager on PATH
ManagerPresent ==
    /\ ipc = "manager"
    /\ Manager(system) \in onPath
    /\ ipc' = "bucket"
    /\ UNCHANGED <<instArgs, ran, installed, outsideInst>>

\* variant: the install command is issued whatever the manager step returned
ManagerInstall_Unchecked ==
    /\ ipc = "manager"
    /\ Manager(system) # "none"
    /\ Manager(system) \notin onPath
    /\ \E code \in InstallCodes :
        /\ ran' = Append(ran, Ran("manager", code))
        /\ ipc' = "bucket"
        /\ UNCHANGED installed
    /\ UNCHANGED <<instArgs, outsideInst>>

\* install_package_manager() runs the manager's install script;
\* `if not success: return False, f"Installation failed: {msg}"`
ManagerInstall ==
    /\ ipc = "manager"
    /\ Manager(system) # "none"
    /\ Manager(system) \notin onPath
    /\ \E code \in InstallCodes :
        /\ ran' = Append(ran, Ran("manager", code))
        /\ IF code = 0
           THEN ipc' = "bucket" /\ UNCHANGED installed
           ELSE /\ installed' = Pair(FALSE, <<"Installation failed: ",
                                               "Failed to install ", Manager(system)>>)
                /\ ipc' = "returned"
    /\ UNCHANGED <<instArgs, outsideInst>>

\* install_package_manager() on a system that is neither Darwin nor Windows
ManagerUnsupported ==
    /\ ipc = "manager"
    /\ Manager(system) = "none"
    /\ installed' = Pair(FALSE, <<"Installation failed: ",
                                   "Unsupported OS for automatic package manager installation: ",
                                   system>>)
    /\ ipc' = "returned"
    /\ UNCHANGED <<instArgs, ran, outsideInst>>

\* `if system == "Windows" and scoop_bucket:` add_scoop_bucket, whose failure
\* is only printed; it calls install_package_manager() again, which runs the
\* scoop install script once more when scoop is still not found on PATH
AddBucket ==
    /\ ipc = "bucket"
    /\ system = "Windows" /\ scoop_bucket.given
    /\ \E again \in BOOLEAN, mcode \in InstallCodes, bcode \in InstallCodes :
        /\ again => "scoop" \notin onPath
        /\ ran' = ran \o (IF again THEN <<Ran("manager", mcode)>> ELSE <<>>)
                      \o (IF again /\ mcode # 0 THEN <<>>
                          ELSE <<Ran("bucket", bcode)>>)
    /\ ipc' = "install"
    /\ UNCHANGED <<instArgs, installed, outsideInst>>

NoBucket ==
    /\ ipc = "bucket"
    /\ ~(system = "Windows" /\ scoop_bucket.given)
    /\ ipc' = "install"
    /\ UNCHANGED <<instArgs, ran, installed, outsideInst>>

\* `brew install` / `scoop install`, or the Unsupported OS return
InstallCommand ==
    /\ ipc = "install"
    /\ IF system \in {"Darwin", "Windows"}
       THEN \E code \in InstallCodes :
              /\ ran' = Append(ran, Ran("install", code))
              /\ installed' =
                    IF code = 0
                    THEN Pair(TRUE, <<"Successfully installed ", app_name>>)
                    ELSE Pair(FALSE, <<"Failed to install ", app_name>>)
       ELSE /\ installed' = Pair(FALSE, <<"Unsupported OS: ", system>>)
            /\ UNCHANGED ran
    /\ ipc' = "returned"
    /\ UNCHANGED <<instArgs, outsideInst>>

\* create_subprocess_shell raises inside run_command: nothing in install_app
\* or install_package_manager catches it
InstallSpawnRaises ==
    /\ \/ ipc = "install" /\ system \in {"Darwin", "Windows"}
       \/ ipc = "manager" /\ Manager(system) # "none" /\ Manager(system) \notin onPath
    /\ ipc' = "raised"
    /\ UNCHANGED <<instArgs, ran, installed, outsideInst>>

InstNext ==
    \/ AlreadyInstalled \/ NotInstalled
    \/ ManagerPresent \/ ManagerInstall \/ ManagerUnsupported
    \/ AddBucket \/ NoBucket
    \/ InstallCommand \/ InstallSpawnRaises

InstSpec == InstInit /\ [][InstNext]_vars

\* ------------------------------------------------------- project_runner
\* a name is a sequence of pieces: a directory called api-1 and the task name
\* f"{base_task_name}-{counter}" built from api and 1 are the same string
ProjectNames ==
    { <<"root">>, <<"dev">>, <<"run">>, <<"default">>, <<"api">>,
      <<"api", "-", 1>> }
ProjectTypes == {"python", "nodejs", "dotnet"}

\* (rel_path, p_type, name); rel_path only appears in the recipe bodies
Projects == [p_type : ProjectTypes, name : ProjectNames]

RECURSIVE ListsUpTo(_, _)
ListsUpTo(S, n) ==
    IF n = 0 THEN {<<>>}
    ELSE LET shorter == ListsUpTo(S, n - 1)
         IN  shorter \cup {Append(l, x) : l \in shorter, x \in S}

InList(x, l) == \E i \in 1..Len(l) : l[i] = x

\* `if name == "root": ... else: task_name = name`
BaseTaskName(p) ==
    IF p.name = <<"root">>
    THEN IF Len(projects) > 1
         THEN IF p.p_type = "python" THEN <<"backend">> ELSE <<p.p_type>>
         ELSE <<"dev">>
    ELSE p.name

\* `while task_name in dev_tasks: task_name = f"{base_task_name}-{counter}"`
RECURSIVE Suffixed(_, _, _)
Suffixed(base, counter, tasks) ==
    IF InList(base \o <<"-", counter>>, tasks)
    THEN Suffixed(base, counter + 1, tasks)
    ELSE base \o <<"-", counter>>

UniqueTaskName(base, tasks) ==
    IF InList(base, tasks) THEN Suffixed(base, 1, tasks) ELSE base

\* `d_task = task_name if task_name != "dev" else "run"`
RecipeName(p, task_name) ==
    IF p.p_type = "dotnet" /\ task_name = <<"dev">> THEN <<"run">> ELSE task_name

Recipe(name, deps) == [name |-> name, deps |-> deps]

JustInit ==
    /\ projects \in ListsUpTo(Projects, MaxProjects)
    /\ justOk \in BOOLEAN
    /\ jidx = 0
    /\ dev_tasks = <<>>
    /\ justfile = <<>>
    /\ jpc = "entry"
    /\ RunIdle /\ RootIdle /\ FdIdle /\ NodeIdle /\ BatIdle /\ CallsIdle
    /\ LoadIdle /\ InstIdle /\ ExecIdle /\ ApiIdle

\* `if not success: return f"Error installing 'just': {msg}"`
JustInstallFails ==
    /\ jpc = "entry" /\ ~justOk
    /\ jpc' = "install_failed"
    /\ UNCHANGED <<projects, justOk, jidx, dev_tasks, justfile, outsideJust>>

\* `if not projects: return "No supported project structure detected ..."`
NoProjects ==
    /\ jpc = "entry" /\ justOk
    /\ projects = <<>>
    /\ jpc' = "none_detected"
    /\ UNCHANGED <<projects, justOk, jidx, dev_tasks, justfile, outsideJust>>

StartLoop ==
    /\ jpc = "entry" /\ justOk
    /\ projects # <<>>
    /\ jidx' = 1
    /\ jpc' = "loop"
    /\ UNCHANGED <<projects, justOk, dev_tasks, justfile, outsideJust>>

\* one turn of `for rel_path, p_type, name in projects`
AddRecipe ==
    /\ jpc = "loop"
    /\ LET p == projects[jidx]
           task_name == UniqueTaskName(BaseTaskName(p), dev_tasks)
           recipe == RecipeName(p, task_name)
       IN  /\ justfile' = Append(justfile, Recipe(recipe, <<>>))
           /\ dev_tasks' = Append(dev_tasks, recipe)
    /\ IF jidx < Len(projects)
       THEN jidx' = jidx + 1 /\ UNCHANGED jpc
       ELSE jpc' = "aggregate" /\ UNCHANGED jidx
    /\ UNCHANGED <<projects, justOk, outsideJust>>

\* `if len(dev_tasks) > 1:` the parallel dev recipe; then the default recipe
\* and the write of the file
WriteJustfile ==
    /\ jpc = "aggregate"
    /\ justfile' =
          justfile
          \o (IF Len(dev_tasks) > 1 THEN <<Recipe(<<"dev">>, dev_tasks)>> ELSE <<>>)
          \o <<Recipe(<<"default">>, <<>>)>>
    /\ jpc' = "written"
    /\ UNCHANGED <<projects, justOk, jidx, dev_tasks, outsideJust>>

\* open(justfile_output_path, "w") raises: "Error writing justfile: ..."
WriteFails ==
    /\ jpc = "aggregate"
    /\ jpc' = "write_failed"
    /\ UNCHANGED <<projects, justOk, jidx, dev_tasks, justfile, outsideJust>>

JustNext ==
    \/ JustInstallFails \/ NoProjects \/ StartLoop
    \/ AddRecipe \/ WriteJustfile \/ WriteFails

JustSpec == JustInit /\ [][JustNext]_vars

\* ------------------------------------------- run_fd_async, run_rg_async
\* returncode after communicate(): an exit code, or minus the signal number
ExitCodes == {-9} \cup 0..(MaxExit + 1)

ExecArgs == { <<"-H", "a">>, <<"a">> }

\* bytes.decode() raises on a byte that is not UTF-8
Decodable(bytes) == \A i \in 1..Len(bytes) : bytes[i] # LONG
DecodeError == <<"'utf-8' codec can't decode byte">>

NoEntries == <<"No entries found.">>
NoMatches == <<"No matches found.">>
FdNotFound == <<"Error: 'fd' command not found. Please ensure fd-find is installed.">>

\* f"Error executing fd {' '.join(args)} (Exit code {returncode}): {error_msg}"
FdExitError(a, code, msg) ==
    <<"Error executing fd ">> \o JoinSp(a) \o <<" (Exit code ", code, "): ">> \o msg

\* f"Error executing fd {' '.join(args)}: {e!s}", and the same for rg
ExecError(p, a, msg) == <<"Error executing ", p, SP>> \o JoinSp(a) \o <<": ">> \o msg

\* variant: exit code 1 is reported like the other non-zero codes
FdResult_OneIsError(a, p) ==
    IF p.code # 0
    THEN IF ~Decodable(p.stderr) THEN ExecError("fd", a, DecodeError)
         ELSE IF Strip(p.stderr) # <<>> THEN FdExitError(a, p.code, Strip(p.stderr))
         ELSE IF ~Decodable(p.stdout) THEN ExecError("fd", a, DecodeError)
         ELSE FdExitError(a, p.code, Strip(p.stdout))
    ELSE IF ~Decodable(p.stdout) THEN ExecError("fd", a, DecodeError)
    ELSE Strip(p.stdout)

\* run_fd_async after communicate(): lines 32-49, with the decode errors that
\* the `except Exception` of line 52 turns into a string
FdResult(a, p) ==
    IF p.code # 0 /\ p.code # 1
    THEN IF ~Decodable(p.stderr) THEN ExecError("fd", a, DecodeError)
         ELSE IF Strip(p.stderr) # <<>> THEN FdExitError(a, p.code, Strip(p.stderr))
         ELSE IF ~Decodable(p.stdout) THEN ExecError("fd", a, DecodeError)
         ELSE FdExitError(a, p.code, Strip(p.stdout))
    ELSE IF ~Decodable(p.stdout) THEN ExecError("fd", a, DecodeError)
    ELSE IF Strip(p.stdout) = <<>> /\ p.code = 1 THEN NoEntries
    ELSE Strip(p.stdout)

\* run_rg_async after communicate(): lines 32-39
RgResult(a, p) ==
    IF p.code = 2
    THEN IF ~Decodable(p.stderr) THEN ExecError("rg", a, DecodeError)
         ELSE IF Strip(p.stderr) # <<>> THEN ExecError("rg", a, Strip(p.stderr))
         ELSE IF ~Decodable(p.stdout) THEN ExecError("rg", a, DecodeError)
         ELSE ExecError("rg", a, Strip(p.stdout))
    ELSE IF p.code = 1 THEN NoMatches
    ELSE IF ~Decodable(p.stdout) THEN ExecError("rg", a, DecodeError)
    ELSE Strip(p.stdout)

ExecInit ==
    /\ prog \in {"fd", "rg"}
    /\ xargs \in ExecArgs
    /\ proc = NoProc
    /\ xpc = "entry"
    /\ xout = <<>>
    /\ RunIdle /\ RootIdle /\ FdIdle /\ NodeIdle /\ BatIdle /\ CallsIdle
    /\ LoadIdle /\ InstIdle /\ JustIdle /\ ApiIdle

\* create_subprocess_exec raises FileNotFoundError: fd has its own message,
\* rg goes through `except Exception`
SpawnNotFound ==
    /\ xpc = "entry"
    /\ xout' = IF prog = "fd" THEN FdNotFound
               ELSE ExecError("rg", xargs, <<"[Errno 2] No such file or directory">>)
    /\ xpc' = "returned"
    /\ UNCHANGED <<prog, xargs, proc, outsideExec>>

\* create_subprocess_exec raises another OSError
SpawnDenied ==
    /\ xpc = "entry"
    /\ xout' = ExecError(prog, xargs, <<"[Errno 13] Permission denied">>)
    /\ xpc' = "returned"
    /\ UNCHANGED <<prog, xargs, proc, outsideExec>>

\* the process runs to its end and communicate() returns what it wrote
Communicate ==
    /\ xpc = "entry"
    /\ \E code \in ExitCodes,
          out \in TextsUpTo(ChildTokens, MaxBytes),
          err \in TextsUpTo(ChildTokens, MaxBytes) :
            proc' = [exited |-> TRUE, code |-> code, stdout |-> out,
                     stderr |-> err]
    /\ xpc' = "exited"
    /\ UNCHANGED <<prog, xargs, xout, outsideExec>>

FdAsyncReturns ==
    /\ xpc = "exited" /\ prog = "fd"
    /\ xout' = FdResult(xargs, proc)
    /\ xpc' = "returned"
    /\ UNCHANGED <<prog, xargs, proc, outsideExec>>

RgAsyncReturns ==
    /\ xpc = "exited" /\ prog = "rg"
    /\ xout' = RgResult(xargs, proc)
    /\ xpc' = "returned"
    /\ UNCHANGED <<prog, xargs, proc, outsideExec>>

ExecNext ==
    \/ SpawnNotFound \/ SpawnDenied \/ Communicate
    \/ FdAsyncReturns \/ RgAsyncReturns

ExecSpec == ExecInit /\ [][ExecNext]_vars

\* ------------------------------------------- init_project (obox_fastapi)
\* the commands of steps 1-3, in the order of the source
UvSteps == <<"uv init", "uv python pin 3.12", "uv add fastapi[standard]">>

\* what a process can be seen to do: it is spawned or not, exits with a code
\* and leaves bytes on its two pipes
ProcOutcomes ==
    [spawned : BOOLEAN, exit : ExitCodes,
     out : TextsUpTo({"a", LONG}, 1), err : TextsUpTo({"a", LONG}, 1)]

\* run_command_async: (returncode, stdout, stderr), or (1, "", str(e)) for any
\* exception of the spawn or of decode()
RunCommandAsync(o) ==
    IF ~o.spawned
    THEN [rc |-> 1, stdout |-> <<>>, stderr |-> <<"[Errno 2] No such file or directory">>]
    ELSE IF Decodable(o.out) /\ Decodable(o.err)
    THEN [rc |-> o.exit, stdout |-> Strip(o.out), stderr |-> Strip(o.err)]
    ELSE [rc |-> 1, stdout |-> <<>>, stderr |-> DecodeError]

\* f"Error during '{step}': {stderr or stdout}"
StepError(step, r) ==
    <<"Error during '", step, "': ">> \o (IF r.stderr # <<>> THEN r.stderr ELSE r.stdout)

ApiSuccess == <<"FastAPI project successfully initialized at: ">>

ApiInit ==
    /\ apiPath \in {"absolute", "home", "relative"}
    /\ uvOk \in BOOLEAN
    /\ mainWas \in {"absent", "user"}
    /\ mainPy = mainWas
    /\ steps = <<>>
    /\ apc = "entry"
    /\ apiOut = <<>>
    /\ RunIdle /\ RootIdle /\ FdIdle /\ NodeIdle /\ BatIdle /\ CallsIdle
    /\ LoadIdle /\ InstIdle /\ JustIdle /\ ExecIdle

apiArgs == <<apiPath, uvOk, mainWas>>

\* `if not os.path.isabs(path):` and expanduser leaves it relative
PathNotAbsolute ==
    /\ apc = "entry"
    /\ apiPath = "relative"
    /\ apiOut' = <<"Error: Path must be absolute.">>
    /\ apc' = "returned"
    /\ UNCHANGED <<apiArgs, mainPy, steps, outsideApi>>

\* os.makedirs(path, exist_ok=True) raises: nothing catches it
MakedirsRaises ==
    /\ apc = "entry"
    /\ apiPath # "relative"
    /\ apc' = "raised"
    /\ UNCHANGED <<apiArgs, mainPy, steps, apiOut, outsideApi>>

\* `if not success: return f"Error ensuring 'uv' is installed: {msg}"`
UvNotInstalled ==
    /\ apc = "entry"
    /\ apiPath # "relative"
    /\ ~uvOk
    /\ apiOut' = <<"Error ensuring 'uv' is installed: ">>
    /\ apc' = "returned"
    /\ UNCHANGED <<apiArgs, mainPy, steps, outsideApi>>

UvInstalled ==
    /\ apc = "entry"
    /\ apiPath # "relative"
    /\ uvOk
    /\ apc' = "steps"
    /\ UNCHANGED <<apiArgs, mainPy, steps, apiOut, outsideApi>>

\* variant: a step's return code is not looked at
UvStep_Unchecked ==
    /\ apc = "steps"
    /\ Len(steps) < Len(UvSteps)
    /\ \E o \in ProcOutcomes :
        LET r == RunCommandAsync(o)
        IN  /\ steps' = Append(steps, [cmd |-> UvSteps[Len(steps) + 1],
                                       outcome |-> o, rc |-> r.rc])
            /\ UNCHANGED <<apiOut, apc>>
    /\ UNCHANGED <<apiArgs, mainPy, outsideApi>>

\* one of the steps 1-3: run_command_async, then `if rc != 0: return ...`;
\* a successful `uv init` may itself leave a main.py where there was none
UvStep ==
    /\ apc = "steps"
    /\ Len(steps) < Len(UvSteps)
    /\ \E o \in ProcOutcomes :
        LET step == UvSteps[Len(steps) + 1]
            r == RunCommandAsync(o)
        IN  /\ steps' = Append(steps, [cmd |-> step, outcome |-> o, rc |-> r.rc])
            /\ IF r.rc # 0
               THEN /\ apiOut' = StepError(step, r)
                    /\ apc' = "returned"
                    /\ UNCHANGED mainPy
               ELSE /\ UNCHANGED <<apiOut, apc>>
                    /\ \/ UNCHANGED mainPy
                       \/ /\ step = "uv init" /\ mainPy = "absent"
                          /\ mainPy' = "uv"
    /\ UNCHANGED <<apiArgs, outsideApi>>

\* step 4: `if not os.path.exists(main_py_path):` write the template; return
WriteMain ==
    /\ apc = "steps"
    /\ Len(steps) = Len(UvSteps)
    /\ mainPy' = IF mainPy = "absent" THEN "template" ELSE mainPy
    /\ apiOut' = ApiSuccess
    /\ apc' = "returned"
    /\ UNCHANGED <<apiArgs, steps, outsideApi>>

ApiNext ==
    \/ PathNotAbsolute \/ MakedirsRaises \/ UvNotInstalled \/ UvInstalled
    \/ UvStep \/ WriteMain

ApiSpec == ApiInit /\ [][ApiNext]_vars

\* ================================================================ claims
Contains(text, tok) == \E i \in 1..Len(text) : text[i] = tok
EndsWith(text, suffix) ==
    /\ Len(text) >= Len(suffix)
    /\ SubSeq(text, Len(text) - Len(suffix) + 1, Len(text)) = suffix
SpawnFailed == child.mode = "none" /\ pc \in {"raised", "done", "escaped"}
InTry == pc \in {"try", "drain", "close", "wait", "gather"}

\* C1: run_command_output never raises: no exception leaves it whatever the
\* command, input, success codes and timeout are, and when the executable
\* could not be spawned the returned string contains the configured
\* error_prefix.
C1_OutputNeverRaises ==
    /\ pc # "escaped"
    /\ (pc = "done" /\ SpawnFailed) => Contains(result, error_prefix)

C1_Witness ==
    /\ pc = "done" /\ SpawnFailed
    /\ ~command.shell
    /\ error_prefix = "Failed to run"
    /\ Head(result) = "Failed to run"

\* C2: run_command never lets an exception through to its caller: an
\* exception raised while spawning or while communicating with the child is
\* caught, both collectors are cancelled and the triple (-1, stdout so far,
\* exception text with stderr so far) is returned.
C2_RunCommandNeverPropagates ==
    /\ pc # "raised"
    /\ rc.kind = "exc" =>
         /\ rc.code = -1
         /\ \A s \in Streams : task[s] # "running"

C4_FailureIsFormatted ==
    (pc = "done" /\ rc.kind \in {"exit", "exc"}
       /\ rc.code \notin EffectiveCodes(success_codes))
    => result = <<error_prefix, SP>>
                  \o (IF command.shell THEN command.words ELSE JoinSp(command.words))
                  \o <<": ">>
                  \o (IF rc.err # <<>> THEN rc.err ELSE rc.out)

C4_Witness ==
    /\ pc = "done" /\ rc.kind = "exit"
    /\ rc.code = 1 /\ ~success_codes.given
    /\ rc.err = <<>> /\ rc.out = <<"a">>
    /\ result = <<"Error executing", SP, "fd", SP, "-H", ": ", "a">>

\* C5: when the timeout elapses before the child has exited, run_command
\* returns (no exit code, stdout captured so far + the still-running marker,
\* stderr captured so far) and leaves the child alone: the returning step
\* does not change the child, and the child is never killed afterwards.
C5_TimeoutLeavesChildRunning ==
    /\ [][(rc.kind = "none" /\ rc'.kind = "timeout")
            => /\ rc'.none
               /\ rc'.out = Strip(Join(data["stdout"])) \o Marker
               /\ rc'.err = Strip(Join(data["stderr"]))
               /\ child' = child]_vars
    /\ [](rc.kind = "timeout" => child.state \in {"running", "exited"})

C5_Witness ==
    /\ pc = "done" /\ rc.kind = "timeout"
    /\ child.state = "running"
    /\ rc.out = <<"a">> \o Marker
    /\ Len(wrote["stdout"]) > 2

\* C6: with a timeout set and a child that runs longer than the timeout,
\* run_command returns as soon as the timeout has elapsed, with or without
\* input_data: from then on run_command can always take its next step
\* without any further action of the child, and a timeout result ends with
\* the still-running marker.
C6_ReturnsOnceTimeoutElapsed ==
    /\ (TimeoutTruthy(timeout) /\ elapsed /\ InTry /\ child.state = "running")
         => ENABLED RunCommandNext
    /\ rc.kind = "timeout" => EndsWith(rc.out, Marker)

\* C7: the collectors never block one another: while run_command (no
\* timeout, no input) waits for the child to exit, the child is never stuck
\* on a full pipe that nothing reads, whatever amount it writes to either
\* stream; so the call returns the child's exit code once the child is done.
C7_NoDeadlockOnFullPipe ==
    (~TimeoutTruthy(timeout) /\ ~input_data.given
       /\ pc = "wait" /\ child.state = "running")
    => ENABLED (ChildNext \/ CollectorNext)

C9_TimeoutIsNotAnError ==
    (pc = "done" /\ rc.kind = "timeout")
    => /\ result = rc.out
       /\ EndsWith(result, Marker)
       /\ ~Contains(result, error_prefix)

C9_Witness ==
    /\ pc = "done" /\ rc.kind = "timeout"
    /\ success_codes.given /\ success_codes.codes = {-1}
    /\ error_prefix = "Failed to run"
    /\ result = <<"a">> \o Marker

\* C10: input round trip: with a child that copies stdin to stdout and exits
\* at end of input, the input is written in full, stdin is closed, and the
\* returned stdout is input_data trimmed, also for input larger than the pipe.
C10_InputRoundTrip ==
    (child.mode = "echo" /\ rc.kind = "exit")
    => /\ wbuf = <<>> /\ inPipe = <<>> /\ stdinClosing
       /\ rc.out = Strip(input_data.text)

\* C15: each call of run_command spawns exactly one child: one call of
\* create_subprocess is made when the call begins and none afterwards, also
\* after a failed spawn, a communication failure, a timeout or an exit code
\* that is not a success code.
C15_SpawnsExactlyOnce ==
    /\ pc = "call" => spawns = 0
    /\ pc # "call" => spawns = 1
    /\ child.mode # "none" => spawns = 1

C15_Witness ==
    /\ pc = "done" /\ spawns = 1
    /\ rc.kind = "exc"
    /\ child.state = "exited"
    /\ rc.code \notin EffectiveCodes(success_codes)

\* C16: a read failure on one output stream does not abort run_command: the
\* invocation can still go on to its end (no timeout, no input: the child or
\* a collector or run_command itself can always take a step), and the exit
\* result keeps the lines collected from the failed stream before the
\* failure while the other stream is collected to its end.
C16_ReadFailureStillCompletes ==
    /\ (~TimeoutTruthy(timeout) /\ ~input_data.given /\ pc \in {"wait", "gather"}
          /\ \E s \in Streams : task[s] = "failed")
       => ENABLED (RunCommandNext \/ ChildNext \/ CollectorNext)
    /\ \A s \in Streams :
         (rc.kind = "exit" /\ task[s] = "failed"
            /\ \A t \in Streams \ {s} : task[t] # "failed")
         => /\ (IF s = "stdout" THEN rc.out ELSE rc.err) = Strip(Join(data[s]))
            /\ \A t \in Streams \ {s} :
                 (IF t = "stdout" THEN rc.out ELSE rc.err) = Strip(wrote[t])

\* ------------------------------------------------- find_project_root
Ancestors(d) == {a \in Dirs : IsPrefix(a, d)}
HasMarker(d) == PathJoin(d, PyProject) \in fs

\* C11: the upward phase returns the nearest enclosing directory that holds
\* the marker: the cwd or its closest ancestor, never a farther one and
\* never a directory that does not enclose the cwd; the walk looks only at
\* the cwd and its ancestors and is given up only at the filesystem root,
\* after every ancestor was found without the marker.
C11_UpwardReturnsNearest ==
    /\ rpc = "up" =>
         /\ current \in Ancestors(cwd)
         /\ \A a \in Ancestors(cwd) : Len(a) > Len(current) => ~HasMarker(a)
    /\ found.phase = "up" =>
         /\ found.dir \in Ancestors(cwd)
         /\ HasMarker(found.dir)
         /\ \A a \in Ancestors(cwd) : Len(a) > Len(found.dir) => ~HasMarker(a)
    /\ (rpc \in {"which", "fd"} \/ found.phase \in {"down", "absent"}) =>
         /\ current = Root
         /\ \A a \in Ancestors(cwd) : ~HasMarker(a)

C11_Witness ==
    /\ found.phase = "up"
    /\ Len(cwd) = 2 /\ Len(found.dir) = 1
    /\ HasMarker(Root)
    /\ \E n \in Names : HasMarker(Append(cwd, n))

\* C12: the downward phase runs only when the upward phase found nothing
\* and fd is on PATH; when fd exits 0 with output, find_project_root returns
\* the directory that holds the file of the first output line; in every
\* other case (fd missing, another exit code, no output) it returns the
\* absent value, and it never raises.
C12_DownwardPhase ==
    /\ rpc = "fd" => (fdOnPath /\ \A a \in Ancestors(cwd) : ~HasMarker(a))
    /\ fdRun.kind # "none" => fdOnPath
    /\ found.phase = "down" =>
         /\ fdRun.kind = "returned" /\ fdRun.code = 0 /\ fdRun.out # <<>>
         /\ PathJoin(found.dir, PyProject) = cwd \o Head(fdRun.out)
    /\ (fdRun.kind = "returned" /\ ~(fdRun.code = 0 /\ fdRun.out # <<>>))
         => found.phase = "absent"
    /\ rpc # "raised"

\* C19: when no root_dir is given and find_project_root returns the absent
\* value, the uv wrapper still runs uv, with cwd unset, and returns the
\* string run_uv_async gave; the absence of a project root is never fatal.
C19_UvRunsWithoutRoot ==
    /\ found.phase = "absent" => (rpc \in {"uv", "done"} /\ ~root_dir.given)
    /\ (rpc = "done" /\ found.phase = "absent") =>
         /\ uvRun.ran
         /\ ~uvRun.cwd.given
         /\ uvRun.out \in UvOutputs(tool)

C19_Witness ==
    /\ rpc = "done" /\ found.phase = "absent"
    /\ tool = "uv_sync"
    /\ fdRun.kind = "returned" /\ fdRun.code = 1
    /\ uvRun.ran /\ uvRun.cwd = NoDir /\ uvRun.out = <<"ok">>

\* ------------------------------------------------------ the fd search
SameIgnoringCase(a, b) ==
    Len(a) = Len(b) /\ \A i \in 1..Len(a) : Lower(a[i]) = Lower(b[i])

C18_ResolveRoot ==
    /\ npc # "entry" => resolved.set
    /\ resolved.set =>
         /\ resolved.root.given # resolved.err.given
         /\ nodeRoot.given => resolved = [root |-> nodeRoot, err |-> None, set |-> TRUE]
         /\ (~nodeRoot.given /\ Len(pkgRoots) = 0) => resolved.err.given
         /\ (~nodeRoot.given /\ Len(pkgRoots) > 1) =>
              /\ resolved.err.given
              /\ \A i \in 1..Len(pkgRoots) : Contains(resolved.err.text, pkgRoots[i])
         /\ (~nodeRoot.given /\ Len(pkgRoots) = 1) =>
              resolved.root = Some(<<pkgRoots[1]>>)

\* C17: every tool call returns a string and never ends in an unhandled
\* exception, whatever fails in the wrapped command or in the project-root
\* lookup; in particular pnpm_add, pnpm_list, pnpm_run and get_nodejs_info
\* called without root_dir return a string.
C17_ToolsReturnStrings ==
    /\ npc # "unhandled"
    /\ npc \in {"entry", "resolved", "raising", "done"}
    /\ npc = "done" => nodeResult # <<>>

\* -------------------------------------------------------- read_file
\* the first and last line bat reads for a --line-range argument
RangeFirst(r) == PyInt(Split(r)[1])
RangeLast(r) == PyInt(Split(r)[Len(Split(r))])
EndsWithColon(t) == t # <<>> /\ t[Len(t)] = ":"

\* C20: read_file reads at most 500 lines: for every line_range it takes
\* (absent, 'N', 'N:M', 'N:', ':M') the range given to bat has its end at
\* or after its start and covers at most 500 lines; absent gives 1:500,
\* 'N:' gives N to N+499 and ':M' gives 1 to M; every line_range it does
\* not take yields a string that starts with 'Error:' and bat is not run.
C20_AtMost500Lines ==
    /\ bpc \in {"install", "install_failed", "returned"} =>
         /\ RangeLast(final_range) >= RangeFirst(final_range)
         /\ RangeLast(final_range) - RangeFirst(final_range) + 1 <= 500
         /\ ~line_range.given => final_range = <<"1", ":", "5", "0", "0">>
         /\ (line_range.given /\ Len(line_range.text) > 1
               /\ EndsWithColon(line_range.text)) =>
              /\ RangeFirst(final_range) = PyInt(Split(line_range.text)[1])
              /\ RangeLast(final_range) = RangeFirst(final_range) + 499
         /\ (line_range.given /\ Len(line_range.text) > 1
               /\ Head(line_range.text) = ":") =>
              /\ RangeFirst(final_range) = 1
              /\ RangeLast(final_range) = PyInt(Tail(line_range.text))
    /\ bpc = "rejected" => (Head(batResult) = "Error:" /\ final_range = <<>>)
    /\ bpc = "returned" => batResult \in BatOutputs

C20_Witness ==
    /\ bpc = "returned"
    /\ line_range = Some(<<"5", ":">>)
    /\ final_range = <<"5", ":", "5", "0", "4">>
    /\ batResult = <<"   1 a">>

\* ------------------------------------------- concurrent invocations
TokensOf(text) == {text[k] : k \in 1..Len(text)}

\* C14: whatever the interleaving of two concurrent invocations, nothing of
\* one invocation reaches the other: the lines an invocation has collected
\* hold only what its own child wrote, and its result is the exit code of
\* its own child with exactly the trimmed text that child wrote to stdout
\* and to stderr.
C14_NoCrossTalk ==
    \A i \in CallIds :
      /\ \A s \in Streams :
           TokensOf(Join(calls[i].data[s])) \subseteq {OwnToken(i), NL}
      /\ calls[i].pc = "returned" =>
           /\ calls[i].rc.code = calls[i].child.code
           /\ calls[i].rc.out = Strip(calls[i].child.script[1])
           /\ calls[i].rc.err = Strip(calls[i].child.script[2])

C14_Witness ==
    /\ calls[1].pc = "returned" /\ calls[1].rc.out = <<"a">>
    /\ calls[1].rc.code = 1
    /\ calls[2].pc = "wait" /\ calls[2].child.state = "exited"
    /\ calls[2].child.code = 2
    /\ calls[2].data["stderr"] = << <<"b", NL>> >>
    /\ calls[2].task["stdout"] = "running"

\* ------------------------------------------------- the timeout argument
\* C22: for every timeout a caller supplies, 0 included, run_command is on the
\* timeout-bounded path: once that many seconds have passed (none, for 0) and
\* the child still runs, the wait for the child can end with the timeout return.
C22_SuppliedTimeoutBoundsTheWait ==
    ( /\ timeout.given
      /\ pc = "wait"
      /\ child.state = "running"
      /\ (elapsed \/ timeout.secs = 0) ) => ENABLED TimeoutReturn

\* the same for the timeouts that are not 0
C22_NonZeroTimeoutBoundsTheWait ==
    ( /\ timeout.given /\ timeout.secs # 0
      /\ pc = "wait"
      /\ child.state = "running"
      /\ elapsed ) => ENABLED TimeoutReturn

\* ---------------------------------------------------- load_mcp_modules
\* every module that exposes a FastMCP instance
ServerModules ==
    { f.stem : f \in UNION { {Listing[d][i] : i \in 1..Len(Listing[d])} :
                                d \in DOMAIN Listing } } \ {"__pycache__", "utils"}

\* C21: once load_mcp_modules(["obox_mcp", "project_templates"]) has returned,
\* every tool the main server reaches has a description that is present and
\* has a character that is not whitespace.
C21_ToolsHaveDescriptions ==
    (lpc = "done" /\ directories = <<"obox_mcp", "project_templates">>) =>
        \A t \in GetTools :
            /\ t.description.given
            /\ Strip(t.description.text) # <<>>

C21_Witness ==
    /\ lpc = "done"
    /\ directories = <<"obox_mcp", "project_templates">>
    /\ mounted = ServerModules
    /\ Cardinality(GetTools) = 49
\* ---------------------------------------------------------- install_app
InstallsRan == { i \in 1..Len(ran) : ran[i].cmd = "install" }

\* C23: install_app returns success without running anything when the command
\* is on PATH; an install command is run only on macOS or Windows and only
\* after the package manager was found or its installation exited 0; on any
\* other system the call fails and runs no install command; success is
\* reported only if the command was on PATH or the install command exited 0.
C23_InstallAppOrder ==
    /\ (ipc = "returned" /\ CmdToCheck \in onPath) =>
            (installed.ok /\ ran = <<>>)
    /\ \A i \in InstallsRan :
            /\ system \in {"Darwin", "Windows"}
            /\ \/ Manager(system) \in onPath
               \/ \E j \in 1..(i - 1) : ran[j] = Ran("manager", 0)
    /\ (ipc = "returned" /\ system \notin {"Darwin", "Windows"}
            /\ CmdToCheck \notin onPath) =>
            (~installed.ok /\ InstallsRan = {})
    /\ (installed.set /\ installed.ok) =>
            \/ CmdToCheck \in onPath
            \/ ran # <<>> /\ ran[Len(ran)] = Ran("install", 0)

C23_Witness ==
    /\ ipc = "returned"
    /\ installed.ok
    /\ CmdToCheck \notin onPath
    /\ ran = <<Ran("manager", 0), Ran("install", 0)>>
\* ------------------------------------------------------- project_runner
\* C24: in the justfile project_runner writes, the recipe names are pairwise
\* distinct, and the aggregate dev recipe does not list dev as a dependency.
C24_RecipeNamesDistinct ==
    jpc = "written" =>
        /\ \A i, j \in 1..Len(justfile) :
                i # j => justfile[i].name # justfile[j].name
        /\ \A i \in 1..Len(justfile) :
                justfile[i].name = <<"dev">> => ~InList(<<"dev">>, justfile[i].deps)

\* what does hold: the names in dev_tasks differ whenever no project is a
\* dotnet project whose task name is dev
C24_TaskNamesDistinct ==
    (\A i \in 1..Len(projects) : projects[i].p_type # "dotnet") =>
        \A i, j \in 1..Len(dev_tasks) : i # j => dev_tasks[i] # dev_tasks[j]
\* ------------------------------------------- run_fd_async, run_rg_async
StartsWith(text, prefix) ==
    Len(text) >= Len(prefix) /\ SubSeq(text, 1, Len(prefix)) = prefix
HasExitCode(text) == \E i \in 1..Len(text) : text[i] = " (Exit code "
FdReturned == xpc = "returned" /\ prog = "fd"
RgReturned == xpc = "returned" /\ prog = "rg"
Spawned == proc.exited

FdDecodes ==
    IF proc.code \in {0, 1} THEN Decodable(proc.stdout)
    ELSE /\ Decodable(proc.stderr)
         /\ Strip(proc.stderr) = <<>> => Decodable(proc.stdout)

C26_RgOutcomes ==
    RgReturned =>
        /\ (Spawned /\ proc.code = 1) => xout = NoMatches
        /\ (~Spawned \/ proc.code \notin {0, 1}) =>
                StartsWith(xout, <<"Error executing ", "rg">>)
        /\ (Spawned /\ proc.code = 0) =>
                \/ xout = Strip(proc.stdout)
                \/ StartsWith(xout, <<"Error executing ", "rg">>)
\* ------------------------------------------- init_project (obox_fastapi)
\* C27: the uv steps run in the order uv init, uv python pin 3.12,
\* uv add fastapi[standard], each only after the one before exited 0; a step
\* that fails is the last one run, the call returns the error string that
\* names it and init_project has written no main.py; a main.py that existed
\* before the call is never overwritten.
C27_StepsInOrder ==
    /\ \A i \in 1..Len(steps) : steps[i].cmd = UvSteps[i]
    /\ \A i \in 1..(Len(steps) - 1) :
            /\ steps[i].rc = 0
            /\ steps[i].outcome.spawned /\ steps[i].outcome.exit = 0
    /\ (steps # <<>> /\ steps[Len(steps)].rc # 0) =>
            /\ apc = "returned"
            /\ StartsWith(apiOut, <<"Error during '", UvSteps[Len(steps)], "': ">>)
            /\ mainPy # "template"
    /\ mainWas = "user" => mainPy = "user"

C27_Witness ==
    /\ apc = "returned"
    /\ Len(steps) = 2
    /\ steps[2].outcome.spawned /\ steps[2].outcome.exit = 2
    /\ StartsWith(apiOut, <<"Error during '", "uv python pin 3.12", "': ">>)
    /\ mainPy = "uv"
\* ------------------------------------------------ read_file, the order
\* C28: a rejected line_range makes _read_file return its error string before
\* anything else: install_app is not awaited and no process is spawned; bat is
\* run only after the range was validated and install_app("bat") succeeded.
C28_RejectsBeforeInstall ==
    /\ ~CheckedRange(line_range).ok => batLog = <<>>
    /\ bpc = "rejected" => batResult = CheckedRange(line_range).error
    /\ InList("bat", batLog) =>
            /\ CheckedRange(line_range).ok
            /\ final_range = CheckedRange(line_range).range
            /\ batLog = <<"install_app ok", "bat">>

C28_Witness ==
    /\ bpc = "rejected"
    /\ line_range.given
    /\ batResult = <<"Error:", " Line range exceeds maximum of 500 lines.">>
    /\ batLog = <<>>
\* --------------------------------------------- a child with a descendant
\* C29: for a child that exits before the timeout has elapsed, run_command
\* with a timeout returns what it returns without one, the exit code with the
\* collected output (or the exception triple), never the still-running triple.
C29_TimeoutPathAgrees ==
    (TimeoutTruthy(timeout) /\ child.state = "exited" /\ child.intime)
        => rc.kind # "timeout"

\* the same for a child that leaves no descendant holding its pipes
C29_AgreesWithoutDescendant ==
    (TimeoutTruthy(timeout) /\ child.state = "exited" /\ child.intime
        /\ child.heir = "none")
        => rc.kind # "timeout"

\* C30: once the child has exited, run_command returns without any other
\* process having to close the child's output pipes: until it has returned,
\* run_command or one of its collectors can take a step, or, with a timeout
\* that has not elapsed yet, the timeout is still to come.
C30_ReturnsAfterChildExit ==
    (child.state = "exited" /\ InTry)
        => ENABLED (RunCommandNext \/ CollectorNext \/ Tick)

\* the same while no descendant holds the pipes
C30_ReturnsWithoutDescendant ==
    (child.state = "exited" /\ InTry /\ child.heir # "alive")
        => ENABLED (RunCommandNext \/ CollectorNext \/ Tick)
====
